---------------------------- MODULE Spec2Model ----------------------------
(***************************************************************************)
(* Model of the SpamAssassin MCP server core:                              *)
(*   internal/spamassassin/client.go  (SPAMC/1.2 client and codec)         *)
(*   internal/handlers/handlers.go    (tool handlers, rate limiting,       *)
(*                                     validation)                         *)
(* Strings are sequences of one-character strings, so that the regular     *)
(* expressions, number parsing and framing are computed, not assumed.      *)
(* float64 values are fixed-point integers with FracDigits decimals.       *)
(***************************************************************************)
EXTENDS Integers, Sequences, FiniteSets, TLC

VARIABLES
    \* ---- one Client.ScanEmail or Client.ping round trip (client.go) ----
    cop,        \* the Client method called: "scan" or "ping"
    cpc,        \* position inside Client.ScanEmail / parseResponse / ping
    conn,       \* the call's TCP connection: "none", "open", "closed"
    wire,       \* bytes written to the daemon by conn.Write
    content,    \* ScanEmail argument: the message
    options,    \* ScanEmail argument: [CheckBayes, Verbose]
    stream,     \* lines the daemon sends before the stream ends
    streamErr,  \* TRUE: the stream ends with a read error, FALSE: clean EOF
    silent,     \* TRUE: after its lines the daemon sends nothing and keeps
                \* the connection open (the stream does not end)
    scanPos,    \* lines consumed by the bufio.Scanner
    scanErr,    \* scanner.Err(): "nil" or "read error"
    result,     \* the *ScanResult under construction
    retNil,     \* TRUE: the returned *ScanResult is nil
    err,        \* the returned error ("nil" when none)
    explanation, \* the text returned by Handler.buildScoreExplanation
    client,     \* the *Client returned by NewClient: "unset" until it
                \* returns, then "nil" or "ready"
    \* ---- the Handler (handlers.go) ----
    security,   \* config.SecurityConfig held by the Handler
    lim,        \* h.rateLimiter: the token bucket
    mu,         \* the bucket's lock: "free" or the call holding it
    now,        \* the clock, in seconds
    allowLog,   \* outcomes of the admission checks so far: <<time, ok>>
    call        \* the tool calls in progress, by caller

cvars == <<cop, cpc, conn, wire, content, options, stream, streamErr, silent,
           scanPos, scanErr, result, retNil, err, explanation,
           client>>

hvars == <<security, lim, mu, now, allowLog, call>>

vars == <<cvars, hvars>>

----------------------------------------------------------------------------
(* Bounds of the model *)

FracDigits == 1
MaxLines == 2
MaxTime == 3
MaxAllows == 5
MaxContentLen == 12

----------------------------------------------------------------------------
(* Characters and strings *)

Digits == {"0", "1", "2", "3", "4", "5", "6", "7", "8", "9"}

DigitChars == <<"0", "1", "2", "3", "4", "5", "6", "7", "8", "9">>

DigitVal(c) == CHOOSE n \in 0..9 : DigitChars[n + 1] = c

IsDigit(c) == c \in Digits

\* unicode.IsSpace on the characters that occur here
IsSpace(c) == c \in {" ", "\t", "\r", "\n"}

RECURSIVE Pow10(_)
Pow10(n) == IF n = 0 THEN 1 ELSE 10 * Pow10(n - 1)

Scale == Pow10(FracDigits)

\* strings.HasPrefix
HasPrefix(s, p) == Len(s) >= Len(p) /\ SubSeq(s, 1, Len(p)) = p

\* strings.TrimSpace
RECURSIVE TrimLeft(_)
TrimLeft(s) == IF s # <<>> /\ IsSpace(s[1]) THEN TrimLeft(Tail(s)) ELSE s

RECURSIVE TrimRight(_)
TrimRight(s) ==
    IF s # <<>> /\ IsSpace(s[Len(s)]) THEN TrimRight(SubSeq(s, 1, Len(s) - 1)) ELSE s

TrimSpace(s) == TrimRight(TrimLeft(s))

\* strings.Index(s, c) for a one-character separator: 0 when absent
IndexOf(s, c) ==
    IF \E i \in 1..Len(s) : s[i] = c
    THEN CHOOSE i \in 1..Len(s) : s[i] = c /\ \A j \in 1..(i - 1) : s[j] # c
    ELSE 0

\* strings.SplitN(s, ":", 2)
SplitN2(s) ==
    LET i == IndexOf(s, ":")
    IN IF i = 0 THEN <<s>> ELSE <<SubSeq(s, 1, i - 1), SubSeq(s, i + 1, Len(s))>>

\* fmt's %d of a non-negative int
RECURSIVE Itoa(_)
Itoa(n) == IF n < 10 THEN <<DigitChars[n + 1]>>
           ELSE Itoa(n \div 10) \o <<DigitChars[(n % 10) + 1]>>

----------------------------------------------------------------------------
(* scoreRegex and strconv.ParseFloat *)

\* first index at or after i that is not a digit
RECURSIVE SkipDigits(_, _)
SkipDigits(s, i) == IF i <= Len(s) /\ IsDigit(s[i]) THEN SkipDigits(s, i + 1) ELSE i

\* -?\d+\.?\d* matched greedily at i: the index after the match, 0 when none
NumEnd(s, i) ==
    LET a == IF i <= Len(s) /\ s[i] = "-" THEN i + 1 ELSE i
        b == SkipDigits(s, a)
    IN IF b = a THEN 0
       ELSE SkipDigits(s, IF b <= Len(s) /\ s[b] = "." THEN b + 1 ELSE b)

\* scoreRegex matches with its first character at i.  The first number can
\* only end where the greedy match ends: every shorter alternative is
\* followed by a digit or a dot, never by the slash.
ScoreMatchAt(s, i) ==
    LET e == NumEnd(s, i)
    IN /\ e # 0
       /\ e <= Len(s)
       /\ s[e] = "/"
       /\ NumEnd(s, e + 1) # 0

\* scoreRegex.FindStringSubmatch: the leftmost match, <<>> when none
scoreRegex(s) ==
    IF \E i \in 1..Len(s) : ScoreMatchAt(s, i)
    THEN LET i == CHOOSE k \in 1..Len(s) :
                      ScoreMatchAt(s, k) /\ \A j \in 1..(k - 1) : ~ScoreMatchAt(s, j)
             e == NumEnd(s, i)
             f == NumEnd(s, e + 1)
         IN <<SubSeq(s, i, f - 1), SubSeq(s, i, e - 1), SubSeq(s, e + 1, f - 1)>>
    ELSE <<>>

\* value of a sequence of digits
RECURSIVE DigitsVal(_)
DigitsVal(ds) ==
    IF ds = <<>> THEN 0
    ELSE DigitsVal(SubSeq(ds, 1, Len(ds) - 1)) * 10 + DigitVal(ds[Len(ds)])

\* the first FracDigits fraction digits, padded with zeros
RECURSIVE PadFrac(_, _)
PadFrac(fp, n) ==
    IF n = 0 THEN <<>>
    ELSE IF fp = <<>> THEN <<"0">> \o PadFrac(fp, n - 1)
    ELSE <<fp[1]>> \o PadFrac(Tail(fp), n - 1)

\* strconv.ParseFloat(t, 64) on plain decimals: [ok, val], val in 1/Scale
ParseFloat(t) ==
    LET neg == t # <<>> /\ t[1] = "-"
        u == IF neg THEN Tail(t) ELSE t
        e == SkipDigits(u, 1)
        ip == SubSeq(u, 1, e - 1)
        fp == IF e <= Len(u) THEN SubSeq(u, e + 1, Len(u)) ELSE <<>>
        ok == /\ u # <<>>
              /\ (e > Len(u) \/ u[e] = ".")
              /\ (ip # <<>> \/ fp # <<>>)
              /\ \A k \in 1..Len(fp) : IsDigit(fp[k])
        v == DigitsVal(ip) * Scale + DigitsVal(PadFrac(fp, FracDigits))
    IN [ok |-> ok, val |-> IF ~ok THEN 0 ELSE IF neg THEN -v ELSE v]

----------------------------------------------------------------------------
(* ruleRegex and Client.parseRules *)

Lower == {"a", "b", "c", "d", "e", "f", "g", "h", "i", "j", "k", "l", "m",
          "n", "o", "p", "q", "r", "s", "t", "u", "v", "w", "x", "y", "z"}

Upper == {"A", "B", "C", "D", "E", "F", "G", "H", "I", "J", "K", "L", "M",
          "N", "O", "P", "Q", "R", "S", "T", "U", "V", "W", "X", "Y", "Z"}

\* \w
IsWord(c) == c \in Lower \cup Upper \cup Digits \cup {"_"}

RECURSIVE SkipSpaces(_, _)
SkipSpaces(s, i) == IF i <= Len(s) /\ IsSpace(s[i]) THEN SkipSpaces(s, i + 1) ELSE i

RECURSIVE SkipWord(_, _)
SkipWord(s, i) == IF i <= Len(s) /\ IsWord(s[i]) THEN SkipWord(s, i + 1) ELSE i

\* ruleRegex matched with its first character at i: the groups, <<>> when
\* none.  Every quantifier can only stop where its greedy match stops: what
\* must follow it (a space, a word character) is not in its own class.
RuleMatchAt(s, i) ==
    LET a == SkipSpaces(s, i)
        e == NumEnd(s, a)
        b == SkipSpaces(s, e)
        w == SkipWord(s, b)
        c == SkipSpaces(s, w)
    IN IF e # 0 /\ b > e /\ w > b /\ c > w
       THEN <<SubSeq(s, i, Len(s)), SubSeq(s, a, e - 1), SubSeq(s, b, w - 1),
              SubSeq(s, c, Len(s))>>
       ELSE <<>>

\* ruleRegex.FindStringSubmatch: the leftmost match, <<>> when none
ruleRegex(s) ==
    IF \E i \in 1..Len(s) : RuleMatchAt(s, i) # <<>>
    THEN RuleMatchAt(s, CHOOSE k \in 1..Len(s) :
             RuleMatchAt(s, k) # <<>> /\ \A j \in 1..(k - 1) : RuleMatchAt(s, j) = <<>>)
    ELSE <<>>

\* strings.Contains
Contains(s, sub) ==
    \E i \in 1..(Len(s) - Len(sub) + 1) : SubSeq(s, i, i + Len(sub) - 1) = sub

\* strings.Split(s, "\n")
RECURSIVE SplitLines(_)
SplitLines(s) ==
    LET i == IndexOf(s, "\n")
    IN IF i = 0 THEN <<s>>
       ELSE <<SubSeq(s, 1, i - 1)>> \o SplitLines(SubSeq(s, i + 1, Len(s)))

PtsMarker == <<"p","t","s"," ","r","u","l","e"," ","n","a","m","e">>

\* the loop of parseRules over lines[k..], appending to rules
RECURSIVE parseRulesFrom(_, _, _, _)
parseRulesFrom(lines, k, inRulesSection, rules) ==
    IF k > Len(lines) THEN rules
    ELSE LET line == TrimSpace(lines[k])
             matches == ruleRegex(line)
             score == IF Len(matches) = 4 THEN ParseFloat(matches[2])
                      ELSE [ok |-> FALSE, val |-> 0]
         IN IF Contains(line, PtsMarker)
            THEN parseRulesFrom(lines, k + 1, TRUE, rules)
            ELSE IF inRulesSection /\ line # <<>> /\ Len(matches) = 4 /\ score.ok
            THEN parseRulesFrom(lines, k + 1, inRulesSection,
                     Append(rules, [Name |-> matches[3], Score |-> score.val,
                                    Description |-> matches[4]]))
            ELSE parseRulesFrom(lines, k + 1, inRulesSection, rules)

\* the sum of the scores of rules
RECURSIVE SumScores(_)
SumScores(rules) == IF rules = <<>> THEN 0 ELSE rules[1].Score + SumScores(Tail(rules))

\* a parseRules that sets the score to the sum of the rules it found
parseRulesSumming(summary, res) ==
    LET rules == parseRulesFrom(SplitLines(summary), 1, FALSE, res.RulesHit)
    IN [res EXCEPT !.RulesHit = rules,
                   !.Score = IF rules = <<>> THEN @ ELSE SumScores(rules)]

\* Client.parseRules: result.RulesHit after the call
parseRules(summary, res) ==
    [res EXCEPT !.RulesHit = parseRulesFrom(SplitLines(summary), 1, FALSE, res.RulesHit)]

----------------------------------------------------------------------------
(* Client.parseSpamLine and the header loop of Client.parseResponse *)

SpamPrefix == <<"S","p","a","m",":">>

\* a parseSpamLine that keeps the score it has already read
parseSpamLineKeep(line, res) ==
    LET matches == scoreRegex(line)
    IN IF Len(matches) # 3 THEN [err |-> "invalid spam line format", result |-> res]
       ELSE IF res.Score # 0 THEN [err |-> "nil", result |-> res]
       ELSE [err |-> "nil",
             result |-> [res EXCEPT !.Score = ParseFloat(matches[2]).val,
                                    !.Threshold = ParseFloat(matches[3]).val]]

\* Client.parseSpamLine: [err, result]
parseSpamLine(line, res) ==
    LET matches == scoreRegex(line)
        score == IF Len(matches) = 3 THEN ParseFloat(matches[2])
                 ELSE [ok |-> FALSE, val |-> 0]
        threshold == IF Len(matches) = 3 THEN ParseFloat(matches[3])
                     ELSE [ok |-> FALSE, val |-> 0]
    IN IF Len(matches) # 3 THEN [err |-> "invalid spam line format", result |-> res]
       ELSE IF ~score.ok THEN [err |-> "invalid score", result |-> res]
       ELSE IF ~threshold.ok THEN [err |-> "invalid threshold", result |-> res]
       ELSE [err |-> "nil",
             result |-> [res EXCEPT !.Score = score.val, !.Threshold = threshold.val]]

\* result.Headers[TrimSpace(parts[0])] = TrimSpace(parts[1]) when the line splits
StoreHeader(line, res) ==
    LET parts == SplitN2(line)
    IN IF Len(parts) = 2
       THEN LET key == TrimSpace(parts[1])
                val == TrimSpace(parts[2])
            IN [res EXCEPT !.Headers =
                    [k \in (DOMAIN res.Headers) \cup {key} |->
                        IF k = key THEN val ELSE res.Headers[k]]]
       ELSE res

\* a strict comparison in place of >=
IsSpamOfStrict(res) == res.Score > res.Threshold

\* result.IsSpam = result.Score >= result.Threshold
IsSpamOf(res) == res.Score >= res.Threshold

\* body.WriteString(scanner.Text() + "\n") over the remaining lines
RECURSIVE JoinBody(_, _)
JoinBody(lines, k) ==
    IF k > Len(lines) THEN <<>> ELSE lines[k] \o <<"\n">> \o JoinBody(lines, k + 1)

----------------------------------------------------------------------------
(* Client.ScanEmail: the request frame *)

CmdCheck == <<"C","H","E","C","K">>

CmdReport == <<"R","E","P","O","R","T">>

SpamcVersion == <<" ","S","P","A","M","C","/","1",".","2","\r","\n">>

ContentLengthKey == <<"C","o","n","t","e","n","t","-","l","e","n","g","t","h",":"," ">>

UserBayes == <<"U","s","e","r",":"," ","b","a","y","e","s","\r","\n">>

CRLF == <<"\r","\n">>

\* the verbose flag ignored
CmdOfAlwaysCheck(opts) == CmdCheck

\* cmd := "CHECK"; if options.Verbose { cmd = "REPORT" }
CmdOf(opts) == IF opts.Verbose THEN CmdReport ELSE CmdCheck

\* the headers string of ScanEmail
BuildHeaders(c, opts) ==
    CmdOf(opts) \o SpamcVersion \o ContentLengthKey \o Itoa(Len(c)) \o CRLF
        \o (IF opts.CheckBayes THEN UserBayes ELSE <<>>)
        \o CRLF

\* conn.Write([]byte(headers + content))
BuildFrame(c, opts) == BuildHeaders(c, opts) \o c

----------------------------------------------------------------------------
(* Inputs of the round trip *)

\* spamassassin.threshold default of config.Load, in 1/Scale
DefaultThreshold == 5 * Scale

LineSpamSpaced ==
    <<"S","p","a","m",":"," ","T","r","u","e"," ",";"," ","1","5",".","3"," ","/"," ","5",".","0">>

LineSpamTight ==
    <<"S","p","a","m",":"," ","T","r","u","e"," ",";"," ","1","5",".","3","/","5",".","0">>

LineSpamNeg ==
    <<"S","p","a","m",":"," ","F","a","l","s","e"," ",";"," ","-","1",".","5","/","5",".","0">>

LineSpamEq ==
    <<"S","p","a","m",":"," ","T","r","u","e"," ",";"," ","5",".","0","/","5",".","0">>

LineSpamNoPair == <<"S","p","a","m",":"," ","n","o">>

LineStatus == <<"S","P","A","M","D","/","1",".","1"," ","0"," ","E","X","_","O","K">>

LineOther == <<"X",":"," ","1","/","2">>

\* the same header once more, with another value
LineOtherAgain == <<"X",":","9","/","1"," ">>

LineBlank == <<>>

LinePts == <<"p","t","s"," ","r","u","l","e"," ","n","a","m","e"," ","d","e","s","c","r","i","p","t","i","o","n">>

LineRuleA ==
    <<" ","3",".","0"," ","U","R","G","E","N","T","_","S","U","B","J","E","C","T"," ","S","u","b","j","e","c","t"," ","i","s"," ","u","r","g","e","n","t">>

LineRuleB ==
    <<" ","4",".","5"," ","M","O","N","E","Y","_","P","R","I","Z","E"," ","P","r","i","z","e">>

\* a line of the report that is no table row
LineNote == <<"s","e","e"," ","2"," ","m","o","r","e"," ","l","i","n","e","s">>

\* lines the daemon may send before the blank line
HeaderLines == {LineSpamSpaced, LineSpamTight, LineSpamNeg, LineSpamEq,
                LineSpamNoPair, LineStatus, LineOther, LineOtherAgain}

\* what follows them: nothing (the stream ends), the blank line, the blank
\* line and a report body
Tails == {<<>>, <<LineBlank>>, <<LineBlank, LinePts, LineRuleA, LineRuleB>>,
          <<LineBlank, LineRuleB, LinePts, LineBlank, LineRuleA, LineNote>>,
          <<LineBlank, LinePts, LineRuleA, LineRuleA>>}

HeaderSeqs == UNION {[1..n -> HeaderLines] : n \in 0..MaxLines}

Streams == {h \o t : h \in HeaderSeqs, t \in Tails}

ContentShort == <<"S",":"," ","x","\n","\n","h","i">>

ContentLong ==
    <<"S","u","b","j","e","c","t",":"," ","h","i","\n","\n","b","o","d","y"," ","t","e","x","t">>

Contents == {ContentShort, ContentLong}

ScanOptions == [CheckBayes : BOOLEAN, Verbose : BOOLEAN]

EmptyMap == [k \in {} |-> <<>>]

\* result := &ScanResult{Threshold: c.threshold, Headers: ..., RulesHit: ...}
NewResult(threshold) ==
    [Score |-> 0, Threshold |-> threshold, IsSpam |-> FALSE, RulesHit |-> <<>>,
     Summary |-> <<>>, Headers |-> EmptyMap]

----------------------------------------------------------------------------
(* Client.ScanEmail as steps: dial, write, read the headers line by line,
   read the body and return.  The deferred conn.Close() runs at each return. *)

\* a return that leaves the connection as it is
NoClose(cn) == cn

\* defer conn.Close(): the connection of the returning call is closed
DeferredClose(cn) == IF cn = "open" THEN "closed" ELSE cn

\* net.DialTimeout succeeds
CDial ==
    /\ cop = "scan"
    /\ cpc = "start"
    /\ cpc' = "connected"
    /\ conn' = "open"
    /\ UNCHANGED <<wire, content, options, stream, streamErr, scanPos, scanErr,
                   result, retNil, err>>
    /\ UNCHANGED <<cop, silent, explanation, client>>
    /\ UNCHANGED hvars

\* net.DialTimeout fails: return nil, "connection failed"
CDialFail ==
    /\ cop = "scan"
    /\ cpc = "start"
    /\ cpc' = "returned"
    /\ err' = "connection failed"
    /\ UNCHANGED <<conn, wire, content, options, stream, streamErr, scanPos,
                   scanErr, result, retNil>>
    /\ UNCHANGED <<cop, silent, explanation, client>>
    /\ UNCHANGED hvars

\* conn.Write succeeds; parseResponse starts with a fresh result
CWrite ==
    /\ cop = "scan"
    /\ cpc = "connected"
    /\ wire' = BuildFrame(content, options)
    /\ result' = NewResult(DefaultThreshold)
    /\ cpc' = "headers"
    /\ UNCHANGED <<conn, content, options, stream, streamErr, scanPos, scanErr,
                   retNil, err>>
    /\ UNCHANGED <<cop, silent, explanation, client>>
    /\ UNCHANGED hvars

\* conn.Write fails: return nil, "send failed"
CWriteFail ==
    /\ cop = "scan"
    /\ cpc = "connected"
    /\ cpc' = "returned"
    /\ err' = "send failed"
    /\ conn' = DeferredClose(conn)
    /\ UNCHANGED <<wire, content, options, stream, streamErr, scanPos, scanErr,
                   result, retNil>>
    /\ UNCHANGED <<cop, silent, explanation, client>>
    /\ UNCHANGED hvars

\* one iteration of "for scanner.Scan()" over the headers
CReadHeader ==
    /\ cop = "scan"
    /\ cpc = "headers"
    /\ scanPos < Len(stream) \/ ~silent
    /\ IF scanPos < Len(stream)
       THEN LET line == stream[scanPos + 1]
                r == parseSpamLine(line, result)
            IN /\ scanPos' = scanPos + 1
               /\ scanErr' = scanErr
               /\ IF line = <<>>
                  THEN /\ cpc' = "body"
                       /\ UNCHANGED <<result, retNil, err, conn>>
                  ELSE IF HasPrefix(line, SpamPrefix)
                  THEN IF r.err # "nil"
                       THEN /\ cpc' = "returned"
                            /\ err' = r.err
                            /\ conn' = DeferredClose(conn)
                            /\ UNCHANGED <<result, retNil>>
                       ELSE /\ result' = r.result
                            /\ UNCHANGED <<cpc, retNil, err, conn>>
                  ELSE /\ result' = StoreHeader(line, result)
                       /\ UNCHANGED <<cpc, retNil, err, conn>>
       ELSE /\ cpc' = "body"
            /\ scanErr' = IF streamErr THEN "read error" ELSE "nil"
            /\ UNCHANGED <<scanPos, result, retNil, err, conn>>
    /\ UNCHANGED <<wire, content, options, stream, streamErr>>
    /\ UNCHANGED <<cop, silent, explanation, client>>
    /\ UNCHANGED hvars

\* a parseResponse that reads the body whatever was asked
ReadsBodyAlways(opts) == TRUE

\* parseResponse's "if verbose", with the options.Verbose that ScanEmail passes
ReadsBody(opts) == opts.Verbose

\* the rest of parseResponse: the verbose body, IsSpam, return result, scanner.Err()
CReadBody ==
    /\ cop = "scan"
    /\ cpc = "body"
    /\ ReadsBody(options) => ~silent
    /\ LET summary == JoinBody(stream, scanPos + 1)
           r1 == IF ReadsBody(options)
                 THEN parseRules(summary, [result EXCEPT !.Summary = summary])
                 ELSE result
       IN /\ result' = [r1 EXCEPT !.IsSpam = IsSpamOf(r1)]
          /\ scanPos' = IF ReadsBody(options) THEN Len(stream) ELSE scanPos
          /\ scanErr' = IF ReadsBody(options) /\ streamErr THEN "read error" ELSE scanErr
          /\ err' = scanErr'
    /\ retNil' = FALSE
    /\ cpc' = "returned"
    /\ conn' = DeferredClose(conn)
    /\ UNCHANGED <<wire, content, options, stream, streamErr>>
    /\ UNCHANGED <<cop, silent, explanation, client>>
    /\ UNCHANGED hvars

----------------------------------------------------------------------------
(* Client.ping as steps: dial, write "PING", read one line.  The deferred
   conn.Close() runs at each return after the dial. *)

\* "PING SPAMC/1.2\r\n\r\n"
PingFrame == <<"P","I","N","G"," ">> \o SpamcVersion \o CRLF

Pong == <<"P","O","N","G">>

LinePong == <<"S","P","A","M","D","/","1",".","5"," ","0"," ","P","O","N","G">>

\* what the daemon may send in answer to a PING
PingStreams == {<<>>, <<LinePong>>, <<LineStatus>>, <<LineStatus, LinePong>>}

\* net.DialTimeout succeeds
PDial ==
    /\ cop = "ping"
    /\ cpc = "start"
    /\ cpc' = "connected"
    /\ conn' = "open"
    /\ UNCHANGED <<wire, content, options, stream, streamErr, scanPos, scanErr,
                   result, retNil, err>>
    /\ UNCHANGED <<cop, silent, explanation, client>>
    /\ UNCHANGED hvars

\* net.DialTimeout fails: return err
PDialFail ==
    /\ cop = "ping"
    /\ cpc = "start"
    /\ cpc' = "returned"
    /\ err' = "dial error"
    /\ UNCHANGED <<conn, wire, content, options, stream, streamErr, scanPos,
                   scanErr, result, retNil>>
    /\ UNCHANGED <<cop, silent, explanation, client>>
    /\ UNCHANGED hvars

\* conn.Write succeeds
PWrite ==
    /\ cop = "ping"
    /\ cpc = "connected"
    /\ wire' = PingFrame
    /\ cpc' = "pong"
    /\ UNCHANGED <<conn, content, options, stream, streamErr, scanPos, scanErr,
                   result, retNil, err>>
    /\ UNCHANGED <<cop, silent, explanation, client>>
    /\ UNCHANGED hvars

\* conn.Write fails: return err
PWriteFail ==
    /\ cop = "ping"
    /\ cpc = "connected"
    /\ cpc' = "returned"
    /\ err' = "write error"
    /\ conn' = DeferredClose(conn)
    /\ UNCHANGED <<wire, content, options, stream, streamErr, scanPos, scanErr,
                   result, retNil>>
    /\ UNCHANGED <<cop, silent, explanation, client>>
    /\ UNCHANGED hvars

\* if scanner.Scan() { PONG or "unexpected response" }; "no response" otherwise
PRead ==
    /\ cop = "ping"
    /\ cpc = "pong"
    /\ scanPos < Len(stream) \/ ~silent
    /\ IF scanPos < Len(stream)
       THEN /\ scanPos' = scanPos + 1
            /\ err' = IF Contains(stream[scanPos + 1], Pong) THEN "nil"
                      ELSE "unexpected response"
       ELSE /\ scanPos' = scanPos
            /\ err' = "no response from SpamAssassin"
    /\ cpc' = "returned"
    /\ conn' = DeferredClose(conn)
    /\ UNCHANGED <<wire, content, options, stream, streamErr, scanErr, result, retNil>>
    /\ UNCHANGED <<cop, silent, explanation, client>>
    /\ UNCHANGED hvars

\* a NewClient that hands out its client whatever ping returned
NewClientAlways(pingErr) == "ready"

\* what NewClient returns for the error of client.ping(): nil and the
\* wrapped error, or the client
NewClientResult(pingErr) == IF pingErr # "nil" THEN "nil" ELSE "ready"

\* NewClient after client.ping() has returned
NewClientReturn ==
    /\ cop = "ping"
    /\ cpc = "returned"
    /\ client = "unset"
    /\ client' = NewClientResult(err)
    /\ UNCHANGED <<cop, cpc, conn, wire, content, options, stream, streamErr, silent,
                   scanPos, scanErr, result, retNil, err, explanation>>
    /\ UNCHANGED hvars

----------------------------------------------------------------------------
(* The rate limiter built by handlers.New.  Time is counted in seconds and
   tokens in 1/interval of a token, interval being the seconds one token
   takes to refill: one second adds one unit, one call costs interval units. *)

\* time.Minute, in seconds
Minute == 60

Min(a, b) == IF a <= b THEN a ELSE b

\* rate.Every(time.Minute) without the division by the configured rate
NewEveryMinute(sec) ==
    [interval |-> Minute, burst |-> sec.BurstSize,
     tokens |-> sec.BurstSize * Minute, last |-> 0]

\* rate.NewLimiter(rate.Every(time.Minute/time.Duration(RequestsPerMinute)), BurstSize)
New(sec) ==
    [interval |-> Minute \div sec.RequestsPerMinute, burst |-> sec.BurstSize,
     tokens |-> sec.BurstSize * (Minute \div sec.RequestsPerMinute), last |-> 0]

\* a window counter: the bucket is full again at each minute boundary and
\* gets nothing in between
LimAdvanceWindow(l, t) ==
    IF t \div Minute > l.last \div Minute THEN l.burst * l.interval ELSE l.tokens

\* the bucket's tokens at time t: refilled since the last update, capped at burst
LimAdvance(l, t) == Min(l.burst * l.interval, l.tokens + (t - l.last))

\* an Allow() that restarts the refill when it rejects
LimReserveTouch(l, t) ==
    LET tokens == LimAdvance(l, t) - l.interval
        ok == 1 <= l.burst /\ tokens >= 0
    IN [ok |-> ok, lim |-> IF ok THEN [l EXCEPT !.tokens = tokens, !.last = t]
                           ELSE [l EXCEPT !.last = t]]

\* Allow() at time t on bucket l: one token is taken if there is one,
\* otherwise the bucket is left as it was
LimReserve(l, t) ==
    LET tokens == LimAdvance(l, t) - l.interval
        ok == 1 <= l.burst /\ tokens >= 0
    IN [ok |-> ok, lim |-> IF ok THEN [l EXCEPT !.tokens = tokens, !.last = t] ELSE l]

\* the result of Allow() ignored
RateLimitedNever(ok) == FALSE

\* if !h.rateLimiter.Allow() { return nil, "rate limit exceeded" }
RateLimited(ok) == ~ok

----------------------------------------------------------------------------
(* Handler.validateEmailContent *)

StripCR(line) ==
    IF line # <<>> /\ line[Len(line)] = "\r" THEN SubSeq(line, 1, Len(line) - 1) ELSE line

\* the lines net/textproto reads from the content: a final "\n" ends the
\* last line, it does not start an empty one
MailLines(c) ==
    LET parts == SplitLines(c)
        kept == IF parts[Len(parts)] = <<>> THEN SubSeq(parts, 1, Len(parts) - 1)
                ELSE parts
    IN [k \in 1..Len(kept) |-> StripCR(kept[k])]

\* the header loop of mail.ReadMessage from line k on, n headers stored so
\* far: an empty line ends the headers; a line that starts with a space
\* continues the header before it; any other line needs a colon; at the end
\* of the input at least one header must have been read
RECURSIVE ReadHeaderFrom(_, _, _)
ReadHeaderFrom(lines, k, n) ==
    IF k > Len(lines) THEN n > 0
    ELSE IF lines[k] = <<>> THEN TRUE
    ELSE IF k > 1 /\ lines[k][1] \in {" ", "\t"} THEN ReadHeaderFrom(lines, k + 1, n)
    ELSE IF IndexOf(lines[k], ":") = 0 THEN FALSE
    ELSE ReadHeaderFrom(lines, k + 1, IF IndexOf(lines[k], ":") = 1 THEN n ELSE n + 1)

\* mail.ReadMessage(strings.NewReader(content)) returns no error
ReadMessageOK(c) ==
    /\ ~(c # <<>> /\ c[1] \in {" ", "\t"})
    /\ ReadHeaderFrom(MailLines(c), 1, 0)

\* the first of lines that is no header line
RECURSIVE FirstMalformed(_, _)
FirstMalformed(lines, k) ==
    IF k > Len(lines) THEN <<>>
    ELSE IF lines[k] # <<>> /\ IndexOf(lines[k], ":") = 0 THEN lines[k]
    ELSE FirstMalformed(lines, k + 1)

\* the text of the error of mail.ReadMessage: the line it could not read
ReadMessageErrorText(c) ==
    IF FirstMalformed(MailLines(c), 1) # <<>>
    THEN <<"malformed MIME header line: ">> \o FirstMalformed(MailLines(c), 1)
    ELSE <<"EOF">>

\* the text of the error of validateEmailContent
ValidationErrorText(c, sec) ==
    IF Len(c) > sec.MaxEmailSize
    THEN <<"email size exceeds limit of ">> \o Itoa(sec.MaxEmailSize) \o <<" bytes">>
    ELSE IF c = <<>> THEN <<"email content cannot be empty">>
    ELSE <<"invalid email format", ": ">> \o ReadMessageErrorText(c)

\* a validator that lets every content pass
ValidateNothing(c, sec) == "nil"

\* a validator whose size limit is exclusive
ValidateBelowLimit(c, sec) ==
    IF Len(c) >= sec.MaxEmailSize THEN "email size exceeds limit"
    ELSE IF c = <<>> THEN "email content cannot be empty"
    ELSE IF ~ReadMessageOK(c) THEN "invalid email format"
    ELSE "nil"

\* Handler.validateEmailContent: the error, "nil" when the content passes
validateEmailContent(c, sec) ==
    IF Len(c) > sec.MaxEmailSize THEN "email size exceeds limit"
    ELSE IF c = <<>> THEN "email content cannot be empty"
    ELSE IF ~ReadMessageOK(c) THEN "invalid email format"
    ELSE "nil"

----------------------------------------------------------------------------
(* Handler.CheckReputation: emailRegex, ipRegex and the classification *)

AllIn(s, a, b, set) == \A k \in a..b : s[k] \in set

Letters == Lower \cup Upper

\* ^[a-zA-Z0-9._%+-]+@[a-zA-Z0-9.-]+\.[a-zA-Z]{2,}$
emailRegex(s) ==
    \E i \in 2..Len(s) : \E j \in (i + 2)..(Len(s) - 2) :
        /\ s[i] = "@"
        /\ AllIn(s, 1, i - 1, Letters \cup Digits \cup {".", "_", "%", "+", "-"})
        /\ AllIn(s, i + 1, j - 1, Letters \cup Digits \cup {".", "-"})
        /\ s[j] = "."
        /\ AllIn(s, j + 1, Len(s), Letters)

\* s[i..] is n groups of one to three digits separated by dots, to the end
RECURSIVE DottedFrom(_, _, _)
DottedFrom(s, i, n) ==
    LET e == SkipDigits(s, i)
    IN /\ e > i
       /\ e - i <= 3
       /\ IF n = 1 THEN e = Len(s) + 1
          ELSE e <= Len(s) /\ s[e] = "." /\ DottedFrom(s, e + 1, n - 1)

\* ^(\d{1,3}\.){3}\d{1,3}$
ipRegex(s) == DottedFrom(s, 1, 4)

\* strings.Split(s, "@")
RECURSIVE SplitAt(_)
SplitAt(s) ==
    LET i == IndexOf(s, "@")
    IN IF i = 0 THEN <<s>>
       ELSE <<SubSeq(s, 1, i - 1)>> \o SplitAt(SubSeq(s, i + 1, Len(s)))

\* a domain taken from the sender whenever there is one
ReputationDomainOfSender(req) ==
    IF req.sender # <<>> /\ Len(SplitAt(req.sender)) = 2
    THEN SplitAt(req.sender)[2]
    ELSE req.domain

\* domain := req.Domain, or the part of the sender after the '@'
ReputationDomain(req) ==
    IF req.domain = <<>> /\ req.sender # <<>> /\ Len(SplitAt(req.sender)) = 2
    THEN SplitAt(req.sender)[2]
    ELSE req.domain

\* the block-list entries equal to the domain
RECURSIVE BlockedByExact(_, _, _)
BlockedByExact(domain, blockedDomains, k) ==
    IF k > Len(blockedDomains) THEN <<>>
    ELSE (IF domain = blockedDomains[k] THEN <<blockedDomains[k]>> ELSE <<>>)
         \o BlockedByExact(domain, blockedDomains, k + 1)

\* the block-list entries contained in the domain, in the list's order
RECURSIVE BlockedBy(_, _, _)
BlockedBy(domain, blockedDomains, k) ==
    IF k > Len(blockedDomains) THEN <<>>
    ELSE (IF Contains(domain, blockedDomains[k]) THEN <<blockedDomains[k]>> ELSE <<>>)
         \o BlockedBy(domain, blockedDomains, k + 1)

\* contains(slice, item)
InSlice(slice, item) == \E k \in 1..Len(slice) : slice[k] = item

\* a classification in which the allow list comes before the block list
ReputationAllowFirst(req, sec) ==
    LET domain == ReputationDomain(req)
        reasons == BlockedBy(domain, sec.BlockedDomains, 1)
        allowed == InSlice(sec.AllowedSenders, req.sender)
    IN [Sender |-> req.sender, Domain |-> domain, IP |-> req.ip,
        Reputation |-> IF allowed THEN "good"
                       ELSE IF reasons # <<>> THEN "bad"
                       ELSE "unknown",
        Blocked |-> reasons # <<>> /\ ~allowed, Reasons |-> reasons]

\* a result that reports the first matching block-list entry only
ReputationFirstReason(req, sec) ==
    LET domain == ReputationDomain(req)
        reasons == BlockedBy(domain, sec.BlockedDomains, 1)
        blocked == reasons # <<>>
    IN [Sender |-> req.sender, Domain |-> domain, IP |-> req.ip,
        Reputation |-> IF blocked THEN "bad"
                       ELSE IF InSlice(sec.AllowedSenders, req.sender) THEN "good"
                       ELSE "unknown",
        Blocked |-> blocked, Reasons |-> IF blocked THEN <<reasons[1]>> ELSE <<>>]

\* the ReputationResult of CheckReputation for valid arguments
ReputationOf(req, sec) ==
    LET domain == ReputationDomain(req)
        reasons == BlockedBy(domain, sec.BlockedDomains, 1)
        blocked == reasons # <<>>
    IN [Sender |-> req.sender, Domain |-> domain, IP |-> req.ip,
        Reputation |-> IF blocked THEN "bad"
                       ELSE IF InSlice(sec.AllowedSenders, req.sender) THEN "good"
                       ELSE "unknown",
        Blocked |-> blocked, Reasons |-> reasons]

\* the validation of CheckReputation: the error, "nil" when the arguments pass
validateReputation(req) ==
    IF req.sender # <<>> /\ ~emailRegex(req.sender) THEN "invalid email address format"
    ELSE IF req.ip # <<>> /\ ~ipRegex(req.ip) THEN "invalid IP address format"
    ELSE "nil"

----------------------------------------------------------------------------
(* The tool calls.  Each caller runs one call on its own goroutine; the calls
   share the Handler: its configuration and its rate limiter. *)

Calls == {"c1", "c2"}

Ops == {"scan_email", "check_reputation", "explain_score", "get_config",
        "update_rules", "test_rules"}

ContentBad == <<"x","x">>

\* "Return-Path: a\n\nb": a well-formed message with an envelope-routing header
ContentRouted == <<"R","e","t","u","r","n","-","P","a","t","h",":"," ","a","\n","\n","b">>

\* an allow-listed sender in a blocked domain
SenderGood == <<"a","@","b",".","c","o">>

\* an allow-listed sender in a domain that is not blocked
SenderFriend == <<"a","@","d",".","c","o">>

SenderBad == <<"x","x">>

DomainBlocked == <<"b",".","c","o">>

IPGood == <<"1",".","2",".","3",".","4">>

\* four groups of digits, the first above 255
IPBig == <<"9","9","9",".","2",".","3",".","4">>

IPBad == <<"1",".","2">>

RulesText == <<"r">>

\* the Handler's configuration in the concurrent runs: 30 requests a
\* minute, a burst of one, messages of at most 20 bytes
HandlerConfig ==
    [RequestsPerMinute |-> 30, BurstSize |-> 1, MaxEmailSize |-> 20,
     AllowedSenders |-> <<SenderGood, SenderFriend>>,
     BlockedDomains |-> <<DomainBlocked>>, ValidationEnabled |-> TRUE]

\* the arguments of a call: jsonOK is FALSE when json.Unmarshal fails
NoParams ==
    [jsonOK |-> TRUE, content |-> <<>>, opts |-> [CheckBayes |-> FALSE, Verbose |-> FALSE],
     sender |-> <<>>, domain |-> <<>>, ip |-> <<>>, rules |-> <<>>, samples |-> <<>>]

BadJSON == [NoParams EXCEPT !.jsonOK = FALSE]

HContents == {ContentShort, ContentBad, ContentLong, ContentRouted, <<>>}

SampleSeqs == {<<>>, <<ContentShort>>, <<ContentBad>>, <<ContentBad, ContentShort>>,
               <<ContentLong, ContentShort>>, <<ContentShort, ContentRouted>>}

\* the arguments of check_reputation: senders with and without a domain
\* argument, and IP addresses next to a valid sender
ReputationParams ==
    {[NoParams EXCEPT !.sender = s, !.domain = d] :
        s \in {<<>>, SenderGood, SenderFriend, SenderBad}, d \in {<<>>, DomainBlocked}}
    \cup {[NoParams EXCEPT !.sender = SenderFriend, !.ip = i] : i \in {IPGood, IPBig, IPBad}}

ParamsOf(op) ==
    CASE op = "scan_email" ->
            {[NoParams EXCEPT !.content = c, !.opts = o] :
                c \in HContents,
                o \in {[CheckBayes |-> FALSE, Verbose |-> FALSE],
                       [CheckBayes |-> TRUE, Verbose |-> TRUE]}}
      [] op = "explain_score" ->
            {BadJSON} \cup {[NoParams EXCEPT !.content = c] : c \in HContents}
      [] op = "check_reputation" ->
            {BadJSON} \cup ReputationParams
      [] op = "get_config" -> {NoParams}
      [] op = "update_rules" -> {BadJSON, NoParams}
      [] op = "test_rules" ->
            {BadJSON, NoParams} \cup
            {[NoParams EXCEPT !.rules = RulesText, !.samples = q] : q \in SampleSeqs}

\* what the daemon round trip of one scan gives the handler: an error of
\* Client.ScanEmail, or a result
ScanErrors == {"connection failed", "invalid spam line format"}

ScanResults == {[Score |-> 75, IsSpam |-> TRUE, RulesHit |-> <<"MONEY_PRIZE">>]}

IdleCall ==
    [pc |-> "idle", op |-> "none", params |-> NoParams, seen |-> New(HandlerConfig),
     t |-> 0, admitted |-> FALSE, trace |-> <<>>, si |-> 0, results |-> <<>>,
     outcome |-> "none", errKind |-> "nil", cancelled |-> FALSE,
     daemonErr |-> "nil", tested |-> 0, errMsg |-> <<>>]

\* the call returns: its arguments and locals are gone
Returned(cl, outcome, errKind) ==
    [cl EXCEPT !.pc = "done", !.params = NoParams, !.seen = IdleCall.seen, !.t = 0,
               !.si = 0, !.outcome = outcome, !.errKind = errKind,
               !.errMsg = IF errKind = "nil" THEN <<>> ELSE <<errKind>>,
               !.trace = Append(cl.trace, outcome)]

Failed(cl, errKind) == Returned(cl, "Failed", errKind)

\* fmt.Errorf("<kind>: %w", err): the text of the error returned is the
\* kind, a colon and the text of the error wrapped.  A text is a sequence
\* whose entries are the fixed phrases of the format strings and, one by
\* one, the characters of the values formatted into them.
FailedWith(cl, errKind, detail) ==
    [Failed(cl, errKind) EXCEPT !.errMsg = <<errKind, ": ">> \o detail]

Completed(cl) == Returned(cl, "Completed", "nil")

Stage(cl, pc, stage) == [cl EXCEPT !.pc = pc, !.trace = Append(cl.trace, stage)]

\* the MCP server hands a tool call to its handler
Receive(c) ==
    /\ call[c].pc = "idle"
    /\ \E op \in Ops : \E p \in ParamsOf(op) :
           call' = [call EXCEPT ![c] = Stage([@ EXCEPT !.op = op, !.params = p],
                                            "received", "Received")]
    /\ UNCHANGED <<security, lim, mu, now, allowLog>>
    /\ UNCHANGED cvars

\* the fields of the Client that NewClient copied from the configuration:
\* the defaults of config.Load, the timeout in seconds
ClientFields ==
    [host |-> <<"l","o","c","a","l","h","o","s","t">>, port |-> 783, timeout |-> 30,
     threshold |-> DefaultThreshold]

\* the text of the error of net.DialTimeout("tcp", "<host>:<port>", timeout)
DialErrorText(cl) ==
    <<"dial tcp ">> \o cl.host \o <<":">> \o Itoa(cl.port)
        \o <<": connect: connection refused">>

\* the text of the error Client.ScanEmail returns: the dial error wrapped,
\* or the status line that parseSpamLine could not read
ScanErrorText(e, cl) ==
    IF e = "connection failed" THEN <<e, ": ">> \o DialErrorText(cl)
    ELSE <<e, ": ">> \o LineSpamNoPair

\* Client.GetConfig: the ConfigInfo built from the client's own fields
ConfigInfoOf(cl) ==
    [Version |-> "3.4.x", Threshold |-> cl.threshold, BayesEnabled |-> TRUE,
     RuleCount |-> 1000,
     Settings |-> [host |-> cl.host, port |-> cl.port, timeout |-> cl.timeout]]

\* a GetConfig that asks the daemon
GetConfigFromDaemon(c) ==
    /\ call[c].pc = "received"
    /\ call[c].op = "get_config"
    /\ call' = [call EXCEPT ![c] = Stage(@, "dispatched", "Dispatched")]
    /\ UNCHANGED <<security, lim, mu, now, allowLog>>
    /\ UNCHANGED cvars

\* Handler.GetConfig: h.saClient.GetConfig(), which builds its answer
\* from the client's own fields
GetConfig(c) ==
    /\ call[c].pc = "received"
    /\ call[c].op = "get_config"
    /\ call' = [call EXCEPT ![c] = Completed([@ EXCEPT !.results = <<ConfigInfoOf(ClientFields)>>])]
    /\ UNCHANGED <<security, lim, mu, now, allowLog>>
    /\ UNCHANGED cvars

\* a bucket without a lock
NoLock == TRUE

\* the bucket's lock can be taken
LockFree == mu = "free"

\* h.rateLimiter.Allow(), first half: take the lock, read the clock and the bucket
AllowLock(c) ==
    /\ call[c].pc = "received"
    /\ call[c].op # "get_config"
    /\ LockFree
    /\ mu' = c
    /\ call' = [call EXCEPT ![c] = [@ EXCEPT !.pc = "locked", !.seen = lim, !.t = now]]
    /\ UNCHANGED <<security, lim, now, allowLog>>
    /\ UNCHANGED cvars

\* h.rateLimiter.Allow(), second half: take the token or not, write the
\* bucket, release the lock; the handler returns "rate limit exceeded" on FALSE
AllowUnlock(c) ==
    /\ call[c].pc = "locked"
    /\ LET r == LimReserve(call[c].seen, call[c].t)
       IN /\ lim' = r.lim
          /\ call' = [call EXCEPT ![c] =
                 IF RateLimited(r.ok)
                 THEN Failed(@, "rate limit exceeded")
                 ELSE Stage([@ EXCEPT !.admitted = r.ok, !.seen = IdleCall.seen, !.t = 0],
                            "ratechecked", "RateChecked")]
    /\ mu' = "free"
    /\ UNCHANGED <<security, now, allowLog>>
    /\ UNCHANGED cvars

\* a ScanEmail that has dialled the daemon before it rejects the content
ScanEmailDialFirst(c) ==
    /\ call[c].pc = "ratechecked"
    /\ call[c].op = "scan_email"
    /\ call' = [call EXCEPT ![c] =
           IF validateEmailContent(@.params.content, security) # "nil"
           THEN Failed(Stage(@, "dispatched", "Dispatched"), "security validation failed")
           ELSE Stage(@, "validated", "Validated")]
    /\ UNCHANGED <<security, lim, mu, now, allowLog>>
    /\ UNCHANGED cvars

\* Handler.ScanEmail after the admission check: validateEmailContent(req.Content)
ScanEmailValidate(c) ==
    /\ call[c].pc = "ratechecked"
    /\ call[c].op = "scan_email"
    /\ call' = [call EXCEPT ![c] =
           IF validateEmailContent(@.params.content, security) # "nil"
           THEN FailedWith(@, "security validation failed",
                           ValidationErrorText(call[c].params.content, security))
           ELSE Stage(@, "validated", "Validated")]
    /\ UNCHANGED <<security, lim, mu, now, allowLog>>
    /\ UNCHANGED cvars

\* Handler.ExplainScore after the admission check: json.Unmarshal, then
\* validateEmailContent(req.EmailContent); the scan is verbose with Bayes
ExplainScoreValidate(c) ==
    /\ call[c].pc = "ratechecked"
    /\ call[c].op = "explain_score"
    /\ call' = [call EXCEPT ![c] =
           IF ~@.params.jsonOK THEN Failed(@, "invalid parameters")
           ELSE IF validateEmailContent(@.params.content, security) # "nil"
           THEN FailedWith(@, "security validation failed",
                           ValidationErrorText(call[c].params.content, security))
           ELSE Stage([@ EXCEPT !.params.opts = [CheckBayes |-> TRUE, Verbose |-> TRUE]],
                      "validated", "Validated")]
    /\ UNCHANGED <<security, lim, mu, now, allowLog>>
    /\ UNCHANGED cvars

\* Handler.CheckReputation after the admission check, to its return
CheckReputation(c) ==
    /\ call[c].pc = "ratechecked"
    /\ call[c].op = "check_reputation"
    /\ call' = [call EXCEPT ![c] =
           IF ~@.params.jsonOK THEN Failed(@, "invalid parameters")
           ELSE IF validateReputation(@.params) # "nil"
           THEN Failed(@, validateReputation(@.params))
           ELSE Completed([@ EXCEPT !.results = <<ReputationOf(call[c].params, security)>>])]
    /\ UNCHANGED <<security, lim, mu, now, allowLog>>
    /\ UNCHANGED cvars

\* Handler.UpdateRules after the admission check, to its return:
\* Client.UpdateRules only logs and returns nil
UpdateRules(c) ==
    /\ call[c].pc = "ratechecked"
    /\ call[c].op = "update_rules"
    /\ call' = [call EXCEPT ![c] =
           IF ~@.params.jsonOK THEN Failed(@, "invalid parameters")
           ELSE Completed(@)]
    /\ UNCHANGED <<security, lim, mu, now, allowLog>>
    /\ UNCHANGED cvars

\* Handler.TestRules after the admission check: json.Unmarshal and the
\* check that the rules are not empty
TestRulesBegin(c) ==
    /\ call[c].pc = "ratechecked"
    /\ call[c].op = "test_rules"
    /\ call' = [call EXCEPT ![c] =
           IF ~@.params.jsonOK THEN Failed(@, "invalid parameters")
           ELSE IF @.params.rules = <<>> THEN Failed(@, "rules cannot be empty")
           ELSE [@ EXCEPT !.pc = "loop", !.si = 1]]
    /\ UNCHANGED <<security, lim, mu, now, allowLog>>
    /\ UNCHANGED cvars

\* a loop that takes a token for every sample it scans and skips the
\* sample when there is none
TestRulesNextPerToken(c) ==
    /\ call[c].pc = "loop"
    /\ LET more == call[c].si <= Len(call[c].params.samples)
           valid == more /\ validateEmailContent(call[c].params.samples[call[c].si],
                                                 security) = "nil"
           r == LimReserve(lim, now)
       IN /\ lim' = IF valid THEN r.lim ELSE lim
          /\ call' = [call EXCEPT ![c] =
                 IF ~more THEN Completed([@ EXCEPT !.tested = Len(call[c].results)])
                 ELSE IF ~valid \/ ~r.ok THEN [@ EXCEPT !.si = @ + 1]
                 ELSE Stage([@ EXCEPT !.params.content = call[c].params.samples[call[c].si],
                                      !.params.opts = [CheckBayes |-> FALSE, Verbose |-> TRUE]],
                            "validated", "Validated")]
    /\ UNCHANGED <<security, mu, now, allowLog>>
    /\ UNCHANGED cvars

\* one turn of TestRules' loop up to the scan: the sample is validated and
\* skipped when invalid; after the last sample the call returns its results
\* and a Summary that counts them
TestRulesNext(c) ==
    /\ call[c].pc = "loop"
    /\ call' = [call EXCEPT ![c] =
           IF @.si > Len(@.params.samples)
           THEN Completed([@ EXCEPT !.tested = Len(call[c].results)])
           ELSE IF validateEmailContent(@.params.samples[@.si], security) # "nil"
           THEN [@ EXCEPT !.si = @ + 1]
           ELSE Stage([@ EXCEPT !.params.content = call[c].params.samples[call[c].si],
                                !.params.opts = [CheckBayes |-> FALSE, Verbose |-> TRUE]],
                      "validated", "Validated")]
    /\ UNCHANGED <<security, lim, mu, now, allowLog>>
    /\ UNCHANGED cvars

\* h.saClient.ScanEmail(content, options) is entered: the daemon is dialled
Dispatch(c) ==
    /\ call[c].pc = "validated"
    /\ call' = [call EXCEPT ![c] = Stage(@, "dispatched", "Dispatched")]
    /\ UNCHANGED <<security, lim, mu, now, allowLog>>
    /\ UNCHANGED cvars

\* how many entries of seq are x
RECURSIVE Count(_, _)
Count(seq, x) ==
    IF seq = <<>> THEN 0
    ELSE (IF seq[1] = x THEN 1 ELSE 0) + Count(Tail(seq), x)

\* a handler that calls h.saClient.ScanEmail once more after an error
ScanFailsRetry(c) ==
    /\ call[c].pc = "dispatched"
    /\ \E e \in ScanErrors :
           call' = [call EXCEPT ![c] =
               IF @.op = "test_rules"
               THEN [@ EXCEPT !.pc = "loop", !.si = @ + 1, !.daemonErr = e]
               ELSE IF Count(@.trace, "Dispatched") < 2
               THEN [@ EXCEPT !.pc = "validated", !.daemonErr = e]
               ELSE Failed([@ EXCEPT !.daemonErr = e], "scan failed")]
    /\ UNCHANGED <<security, lim, mu, now, allowLog>>
    /\ UNCHANGED cvars

\* h.saClient.ScanEmail returns an error: ScanEmail and ExplainScore fail
\* with "scan failed", TestRules goes on with the next sample
ScanFails(c) ==
    /\ call[c].pc = "dispatched"
    /\ \E e \in ScanErrors :
           call' = [call EXCEPT ![c] =
               IF @.op = "test_rules"
               THEN [@ EXCEPT !.pc = "loop", !.si = @ + 1, !.daemonErr = e]
               ELSE FailedWith([@ EXCEPT !.daemonErr = e], "scan failed",
                               ScanErrorText(e, ClientFields))]
    /\ UNCHANGED <<security, lim, mu, now, allowLog>>
    /\ UNCHANGED cvars

\* truncateString
truncateString(s, maxLen) ==
    IF Len(s) <= maxLen THEN s ELSE SubSeq(s, 1, maxLen) \o <<".", ".", ".">>

\* the TestResult that TestRules builds from a sample and its scan result
TestResult(email, r) ==
    [Email |-> truncateString(email, 100), Score |-> r.Score, IsSpam |-> r.IsSpam,
     Rules |-> r.RulesHit]

\* h.saClient.ScanEmail returns a result: ScanEmail and ExplainScore return
\* it, TestRules appends a TestResult built from it to its results
ScanSucceeds(c) ==
    /\ call[c].pc = "dispatched"
    /\ \E r \in ScanResults :
           call' = [call EXCEPT ![c] =
               IF @.op = "test_rules"
               THEN [@ EXCEPT !.pc = "loop", !.si = @ + 1,
                              !.results = Append(@, TestResult(call[c].params.content, r))]
               ELSE Completed([@ EXCEPT !.results = <<r>>])]
    /\ UNCHANGED <<security, lim, mu, now, allowLog>>
    /\ UNCHANGED cvars

\* the caller cancels ctx while the daemon round trip of the call is in
\* flight; no handler and no Client method reads ctx
Cancel(c) ==
    /\ call[c].pc = "dispatched"
    /\ ~call[c].cancelled
    /\ call' = [call EXCEPT ![c] = [@ EXCEPT !.cancelled = TRUE]]
    /\ UNCHANGED <<security, lim, mu, now, allowLog>>
    /\ UNCHANGED cvars

\* a second passes: in the first seconds, and again from the last second of
\* the first minute on
Tick ==
    /\ now < MaxTime \/ (now >= Minute - 1 /\ now < Minute - 1 + MaxTime)
    /\ now' = now + 1
    /\ UNCHANGED <<security, lim, mu, allowLog, call>>
    /\ UNCHANGED cvars

----------------------------------------------------------------------------
(* The admission checks of calls that come one after the other *)

LimiterConfigs ==
    {[HandlerConfig EXCEPT !.RequestsPerMinute = r, !.BurstSize = b] :
        r \in {20, 30}, b \in {1, 2}}

\* nobody calls until the last second of the first minute
Idle ==
    /\ now < MaxTime
    /\ now' = Minute - 1
    /\ UNCHANGED <<security, lim, mu, allowLog, call>>
    /\ UNCHANGED cvars

\* a rate-limited tool is called: its handler's first statement,
\* if !h.rateLimiter.Allow() { return nil, "rate limit exceeded" }
LimCall ==
    /\ Len(allowLog) < MaxAllows
    /\ LET r == LimReserve(lim, now)
       IN /\ lim' = r.lim
          /\ allowLog' = Append(allowLog, <<now, ~RateLimited(r.ok)>>)
    /\ UNCHANGED <<security, mu, now, call>>
    /\ UNCHANGED cvars


----------------------------------------------------------------------------
(* Startup: config.Load, then handlers.New on the loaded security section,
   then the admission checks of the Handler built *)

\* the rate-limiting values a configuration file or the environment can hold
LoadableRates == {-1, 0, 20, 30, 60}

LoadableBursts == {-1, 0, 1, 10}

LoadableConfigs ==
    {[HandlerConfig EXCEPT !.RequestsPerMinute = r, !.BurstSize = b] :
        r \in LoadableRates, b \in LoadableBursts}

\* config.Load returns a configuration: the defaults overridden by the file
\* and the environment, unmarshalled and returned as they are
Load ==
    /\ cop = "startup"
    /\ cpc = "start"
    /\ security' \in LoadableConfigs
    /\ cpc' = "loaded"
    /\ UNCHANGED <<cop, conn, wire, content, options, stream, streamErr, silent,
                   scanPos, scanErr, result, retNil, err, explanation, client>>
    /\ UNCHANGED <<lim, mu, now, allowLog, call>>

\* config.Load fails: the file cannot be read or unmarshalled
LoadFail ==
    /\ cop = "startup"
    /\ cpc = "start"
    /\ err' = "config error"
    /\ cpc' = "failed"
    /\ UNCHANGED <<cop, conn, wire, content, options, stream, streamErr, silent,
                   scanPos, scanErr, result, retNil, explanation, client>>
    /\ UNCHANGED hvars

\* the bucket of rate.Every(d) for d <= 0: rate.Inf
InfLimiter(sec) == [interval |-> 0, burst |-> sec.BurstSize, tokens |-> 0, last |-> 0]

\* handlers.New(saClient, cfg.Security): time.Minute divided by the
\* configured rate panics when the rate is 0 (integer division by zero); a
\* negative rate gives a negative interval
NewHandler ==
    /\ cop = "startup"
    /\ cpc = "loaded"
    /\ IF security.RequestsPerMinute = 0
       THEN /\ cpc' = "panicked"
            /\ lim' = lim
       ELSE /\ cpc' = "built"
            /\ lim' = IF security.RequestsPerMinute > 0 THEN New(security)
                      ELSE InfLimiter(security)
    /\ UNCHANGED <<cop, conn, wire, content, options, stream, streamErr, silent,
                   scanPos, scanErr, result, retNil, err, explanation, client>>
    /\ UNCHANGED <<security, mu, now, allowLog, call>>

\* a rate-limited tool of the Handler built is called: h.rateLimiter.Allow()
\* on a bucket of finite rate
Serve ==
    /\ cop = "startup"
    /\ cpc = "built"
    /\ lim.interval > 0
    /\ LimCall

\* the same on a bucket of infinite rate: Allow() is always true
ServeInf ==
    /\ cop = "startup"
    /\ cpc = "built"
    /\ lim.interval = 0
    /\ Len(allowLog) < MaxAllows
    /\ allowLog' = Append(allowLog, <<now, TRUE>>)
    /\ UNCHANGED <<security, lim, mu, now, call>>
    /\ UNCHANGED cvars

----------------------------------------------------------------------------
(* Handler.CheckReputation on its own, from the validation of its arguments
   to the ReputationResult it builds *)

\* a sender in a domain that contains a blocked one
SenderNear == <<"a","@","x","b",".","c","o">>

\* a sender that contains an allow-listed one
SenderAlmost == <<"b","a","@","d",".","c","o">>

DomainNear == <<"x","b",".","c","o">>

DomainClean == <<"d",".","c","o">>

DomainSuffix == <<".","c","o">>

ReputationArgs ==
    {[NoParams EXCEPT !.sender = s, !.domain = d] :
        s \in {<<>>, SenderGood, SenderFriend, SenderNear, SenderAlmost, SenderBad},
        d \in {<<>>, DomainBlocked, DomainNear, DomainClean}}

\* block lists with no, one and two entries, in both orders
ReputationConfigs ==
    {[HandlerConfig EXCEPT !.BlockedDomains = b] :
        b \in {<<>>, <<DomainBlocked>>, <<DomainBlocked, DomainSuffix>>,
               <<DomainSuffix, DomainBlocked>>}}

\* CheckReputation from its validation to the result it is about to return
Reputation ==
    /\ cop = "reputation"
    /\ cpc = "start"
    /\ err' = validateReputation(call["c1"].params)
    /\ call' = IF err' = "nil"
               THEN [call EXCEPT !["c1"].results =
                         <<ReputationOf(call["c1"].params, security)>>]
               ELSE call
    /\ cpc' = "returned"
    /\ UNCHANGED <<cop, conn, wire, content, options, stream, streamErr, silent,
                   scanPos, scanErr, result, retNil, explanation, client>>
    /\ UNCHANGED <<security, lim, mu, now, allowLog>>

----------------------------------------------------------------------------
(* Handler.validateEmailContent on its own, for contents and size limits
   around each other *)

\* "S: x\n\n" followed by a body that makes n bytes in all (n >= 6)
MessageOfLen(n) == [k \in 1..n |-> IF k <= 6 THEN ContentShort[k] ELSE "x"]

ValidatorContents ==
    {<<>>, ContentBad} \cup {MessageOfLen(n) : n \in 6..MaxContentLen}

ValidatorConfigs ==
    {[HandlerConfig EXCEPT !.MaxEmailSize = m, !.ValidationEnabled = v] :
        m \in 0..MaxContentLen, v \in BOOLEAN}

\* h.validateEmailContent(content) is called and returns
Validate ==
    /\ cop = "validate"
    /\ cpc = "start"
    /\ err' = validateEmailContent(content, security)
    /\ cpc' = "returned"
    /\ UNCHANGED <<cop, conn, wire, content, options, stream, streamErr, silent,
                   scanPos, scanErr, result, retNil, explanation, client>>
    /\ UNCHANGED hvars

----------------------------------------------------------------------------
(* Handler.buildScoreExplanation *)

MaxRulesHit == 2

\* fmt's %.2f of a score
FormatFloat2(v) ==
    LET a == IF v < 0 THEN -v ELSE v
        h == (a * 100 + Scale \div 2) \div Scale
    IN (IF v < 0 /\ h > 0 THEN <<"-">> ELSE <<>>)
           \o Itoa(h \div 100) \o <<".">> \o Itoa((h % 100) \div 10) \o Itoa(h % 10)

\* the final-score and classification lines and the blank line after them
ExplanationHead(res) ==
    <<"F","i","n","a","l"," ","S","c","o","r","e",":"," ">> \o FormatFloat2(res.Score)
        \o <<" ","(","T","h","r","e","s","h","o","l","d",":"," ">> \o FormatFloat2(res.Threshold)
        \o <<")","\n">>
        \o <<"C","l","a","s","s","i","f","i","c","a","t","i","o","n",":"," ">>
        \o (IF res.IsSpam THEN <<"S","P","A","M">> ELSE <<"H","A","M">>)
        \o <<"\n","\n">>

\* the line of one rule
RuleLine(rule) ==
    <<" "," ">> \o rule.Name \o <<":"," ">> \o FormatFloat2(rule.Score)
        \o <<" ","-"," ">> \o rule.Description \o <<"\n">>

\* the loop over result.RulesHit
RECURSIVE RuleLines(_)
RuleLines(rules) ==
    IF rules = <<>> THEN <<>> ELSE RuleLine(rules[1]) \o RuleLines(Tail(rules))

RECURSIVE Reverse(_)
Reverse(seq) == IF seq = <<>> THEN <<>> ELSE Append(Reverse(Tail(seq)), seq[1])

\* an explanation that lists the rules last to first
buildScoreExplanationReversed(res) ==
    ExplanationHead(res)
        \o (IF Len(res.RulesHit) > 0
            THEN <<"R","u","l","e","s"," ","T","r","i","g","g","e","r","e","d",":","\n">> \o RuleLines(Reverse(res.RulesHit))
            ELSE <<"N","o"," ","s","p","a","m"," ","r","u","l","e","s"," ","t","r","i","g","g","e","r","e","d",".","\n">>)

\* Handler.buildScoreExplanation
buildScoreExplanation(res) ==
    ExplanationHead(res)
        \o (IF Len(res.RulesHit) > 0
            THEN <<"R","u","l","e","s"," ","T","r","i","g","g","e","r","e","d",":","\n">> \o RuleLines(res.RulesHit)
            ELSE <<"N","o"," ","s","p","a","m"," ","r","u","l","e","s"," ","t","r","i","g","g","e","r","e","d",".","\n">>)

LineRuleNeg == <<" ","-","0",".","5"," ","B","A","Y","E","S","_","0","0"," ","B","a","y","e","s">>

\* the rules a verbose scan can report: what parseRules makes of a table line
ExplainRules ==
    {parseRulesFrom(<<l>>, 1, TRUE, <<>>)[1] : l \in {LineRuleA, LineRuleB, LineRuleNeg}}

\* the scores of the results explained: -1.5, 0, 4.9, 5.0 and 12.5
ExplainScores ==
    {-(3 * Scale) \div 2, 0, DefaultThreshold - Scale \div 10, DefaultThreshold,
     12 * Scale + Scale \div 2}

\* the results of a verbose scan that ExplainScore hands to buildScoreExplanation
ExplainResults ==
    {[NewResult(DefaultThreshold) EXCEPT
          !.Score = sc, !.RulesHit = rs,
          !.IsSpam = IsSpamOf([Score |-> sc, Threshold |-> DefaultThreshold])] :
        sc \in ExplainScores,
        rs \in UNION {[1..n -> ExplainRules] : n \in 0..MaxRulesHit}}

\* h.buildScoreExplanation(result) is called and returns
Explain ==
    /\ cop = "explain"
    /\ cpc = "start"
    /\ explanation' = buildScoreExplanation(result)
    /\ cpc' = "returned"
    /\ UNCHANGED <<cop, conn, wire, content, options, stream, streamErr, silent,
                   scanPos, scanErr, result, retNil, err, client>>
    /\ UNCHANGED hvars

----------------------------------------------------------------------------
(* Specifications *)

CodecQuiet ==
    /\ cop = "scan"
    /\ cpc = "start"
    /\ conn = "none"
    /\ wire = <<>>
    /\ content = <<>>
    /\ options = [CheckBayes |-> FALSE, Verbose |-> FALSE]
    /\ stream = <<>>
    /\ streamErr = FALSE
    /\ silent = FALSE
    /\ scanPos = 0
    /\ scanErr = "nil"
    /\ result = NewResult(DefaultThreshold)
    /\ retNil = TRUE
    /\ err = "nil"
    /\ explanation = <<>>
    /\ client = "ready"

HandlerQuiet ==
    /\ security = HandlerConfig
    /\ lim = New(HandlerConfig)
    /\ mu = "free"
    /\ now = 0
    /\ allowLog = <<>>
    /\ call = [c \in Calls |-> IdleCall]

\* one round trip of the Client: ScanEmail for a message, or ping; the
\* daemon's stream ends cleanly, ends with a read error, or does not end
InitCodec ==
    /\ cpc = "start"
    /\ conn = "none"
    /\ wire = <<>>
    /\ \/ /\ cop = "scan"
          /\ content \in Contents
          /\ options \in ScanOptions
          /\ stream \in Streams
          /\ client = "ready"
       \/ /\ cop = "ping"
          /\ content = <<>>
          /\ options = [CheckBayes |-> FALSE, Verbose |-> FALSE]
          /\ stream \in PingStreams
          /\ client = "unset"
    /\ streamErr \in BOOLEAN
    /\ silent \in {FALSE, ~streamErr}
    /\ scanPos = 0
    /\ scanErr = "nil"
    /\ result = NewResult(DefaultThreshold)
    /\ retNil = TRUE
    /\ err = "nil"
    /\ explanation = <<>>
    /\ HandlerQuiet

NextCodec ==
    \/ CDial
    \/ CDialFail
    \/ CWrite
    \/ CWriteFail
    \/ CReadHeader
    \/ CReadBody
    \/ PDial
    \/ PDialFail
    \/ PWrite
    \/ PWriteFail
    \/ PRead
    \/ NewClientReturn

SpecCodec == InitCodec /\ [][NextCodec]_vars

\* the daemon streams of the runs in which the call's progress is followed
ProgressStreams ==
    PingStreams \cup
    {<<>>, <<LineOther>>, <<LineSpamNoPair>>, <<LineStatus, LineBlank>>,
     <<LineStatus, LineBlank, LinePts, LineRuleA>>}

InitCodecFair ==
    /\ InitCodec
    /\ content \in {<<>>, ContentShort}
    /\ stream \in ProgressStreams

\* the same round trip on a goroutine that keeps running: a step that can
\* be taken is taken
SpecCodecFair == InitCodecFair /\ [][NextCodec]_vars /\ WF_vars(NextCodec)

\* one call of the validator
InitValidator ==
    /\ cop = "validate"
    /\ cpc = "start"
    /\ conn = "none"
    /\ wire = <<>>
    /\ content \in ValidatorContents
    /\ options = [CheckBayes |-> FALSE, Verbose |-> FALSE]
    /\ stream = <<>>
    /\ streamErr = FALSE
    /\ silent = FALSE
    /\ scanPos = 0
    /\ scanErr = "nil"
    /\ result = NewResult(DefaultThreshold)
    /\ retNil = TRUE
    /\ err = "nil"
    /\ explanation = <<>>
    /\ client = "ready"
    /\ security \in ValidatorConfigs
    /\ lim = New(security)
    /\ mu = "free"
    /\ now = 0
    /\ allowLog = <<>>
    /\ call = [c \in Calls |-> IdleCall]

NextValidator == Validate

SpecValidator == InitValidator /\ [][NextValidator]_vars

\* one call of buildScoreExplanation
InitExplain ==
    /\ cop = "explain"
    /\ cpc = "start"
    /\ conn = "none"
    /\ wire = <<>>
    /\ content = <<>>
    /\ options = [CheckBayes |-> TRUE, Verbose |-> TRUE]
    /\ stream = <<>>
    /\ streamErr = FALSE
    /\ silent = FALSE
    /\ scanPos = 0
    /\ scanErr = "nil"
    /\ result \in ExplainResults
    /\ retNil = FALSE
    /\ err = "nil"
    /\ explanation = <<>>
    /\ client = "ready"
    /\ HandlerQuiet

NextExplain == Explain

SpecExplain == InitExplain /\ [][NextExplain]_vars

\* the process starts: nothing is loaded and no Handler exists
InitStartup ==
    /\ cop = "startup"
    /\ cpc = "start"
    /\ conn = "none"
    /\ wire = <<>>
    /\ content = <<>>
    /\ options = [CheckBayes |-> FALSE, Verbose |-> FALSE]
    /\ stream = <<>>
    /\ streamErr = FALSE
    /\ silent = FALSE
    /\ scanPos = 0
    /\ scanErr = "nil"
    /\ result = NewResult(DefaultThreshold)
    /\ retNil = TRUE
    /\ err = "nil"
    /\ explanation = <<>>
    /\ client = "ready"
    /\ HandlerQuiet

NextStartup ==
    \/ Load
    \/ LoadFail
    \/ NewHandler
    \/ Serve
    \/ ServeInf

SpecStartup == InitStartup /\ [][NextStartup]_vars

\* one call of CheckReputation that has passed the admission check
InitReputation ==
    /\ cop = "reputation"
    /\ cpc = "start"
    /\ conn = "none"
    /\ wire = <<>>
    /\ content = <<>>
    /\ options = [CheckBayes |-> FALSE, Verbose |-> FALSE]
    /\ stream = <<>>
    /\ streamErr = FALSE
    /\ silent = FALSE
    /\ scanPos = 0
    /\ scanErr = "nil"
    /\ result = NewResult(DefaultThreshold)
    /\ retNil = TRUE
    /\ err = "nil"
    /\ explanation = <<>>
    /\ client = "ready"
    /\ security \in ReputationConfigs
    /\ lim = New(security)
    /\ mu = "free"
    /\ now = 0
    /\ allowLog = <<>>
    /\ \E p \in ReputationArgs :
           call = [c \in Calls |->
                      IF c = "c1"
                      THEN [IdleCall EXCEPT !.pc = "ratechecked", !.op = "check_reputation",
                                            !.params = p, !.admitted = TRUE,
                                            !.trace = <<"Received", "RateChecked">>]
                      ELSE IdleCall]

NextReputation == Reputation

SpecReputation == InitReputation /\ [][NextReputation]_vars

\* admission checks one after the other, against the clock
InitLimiter ==
    /\ CodecQuiet
    /\ security \in LimiterConfigs
    /\ lim = New(security)
    /\ mu = "free"
    /\ now = 0
    /\ allowLog = <<>>
    /\ call = [c \in Calls |-> IdleCall]

NextLimiter ==
    \/ LimCall
    \/ Tick
    \/ Idle

SpecLimiter == InitLimiter /\ [][NextLimiter]_vars

\* concurrent tool calls on one Handler
Init ==
    /\ CodecQuiet
    /\ security = HandlerConfig
    /\ lim = New(security)
    /\ mu = "free"
    /\ now = 0
    /\ allowLog = <<>>
    /\ call = [c \in Calls |-> IdleCall]

Next ==
    \/ \E c \in Calls : Receive(c)
    \/ \E c \in Calls : GetConfig(c)
    \/ \E c \in Calls : AllowLock(c)
    \/ \E c \in Calls : AllowUnlock(c)
    \/ \E c \in Calls : ScanEmailValidate(c)
    \/ \E c \in Calls : ExplainScoreValidate(c)
    \/ \E c \in Calls : CheckReputation(c)
    \/ \E c \in Calls : UpdateRules(c)
    \/ \E c \in Calls : TestRulesBegin(c)
    \/ \E c \in Calls : TestRulesNext(c)
    \/ \E c \in Calls : Dispatch(c)
    \/ \E c \in Calls : ScanFails(c)
    \/ \E c \in Calls : ScanSucceeds(c)
    \/ \E c \in Calls : Cancel(c)
    \/ Tick

Spec == Init /\ [][Next]_vars


----------------------------------------------------------------------------
(* Properties of the round trip (checked under SpecCodec) *)

\* the ScanEmail call returned after its request was written
ReturnedAfterWrite == cop = "scan" /\ cpc = "returned" /\ wire # <<>>

\* the lines before the blank line that ends the headers (all, without one)
HeaderBlock(s) ==
    LET i == IndexOf(s, LineBlank)
    IN IF i = 0 THEN s ELSE SubSeq(s, 1, i - 1)

HasBlankLine(s) == IndexOf(s, LineBlank) # 0

\* the status lines of the model that carry a <score>/<threshold> pair
StatusLinesWithPair == {LineSpamSpaced, LineSpamTight, LineSpamNeg, LineSpamEq}

\* the decimal digits of a length below 100
Decimal(n) == IF n < 10 THEN <<DigitChars[n + 1]>>
              ELSE <<DigitChars[(n \div 10) + 1], DigitChars[(n % 10) + 1]>>

\* C1: every ScanResult returned by ScanEmail/parseResponse has
\* IsSpam = (Score >= Threshold); a status line with score = threshold
\* (5.0/5.0) gives IsSpam = TRUE.
C1_IsSpamIsScoreGeThreshold ==
    (cpc = "returned" /\ ~retNil) =>
        /\ result.IsSpam <=> (result.Score >= result.Threshold)
        /\ (HeaderBlock(stream) = <<LineSpamEq>> =>
                /\ result.Score = 5 * Scale
                /\ result.Threshold = 5 * Scale
                /\ result.IsSpam)

C1_Witness ==
    /\ cpc = "returned"
    /\ ~retNil
    /\ HeaderBlock(stream) = <<LineSpamEq>>
    /\ result.Score = result.Threshold
    /\ result.IsSpam

\* C2: a response whose status line is "Spam: True ; 15.3 / 5.0" decodes
\* without error to score 15.3, threshold 5.0, isSpam true.
C2_SpacedStatusLineDecodes ==
    (ReturnedAfterWrite /\ stream = <<LineSpamSpaced, LineBlank>> /\ ~streamErr) =>
        /\ err = "nil"
        /\ ~retNil
        /\ result.Score * 10 = 153 * Scale
        /\ result.Threshold = 5 * Scale
        /\ result.IsSpam

\* C3: a response with no status line carrying a <num>/<num> pair before
\* the blank line yields an error and no ScanResult.
C3_NoStatusLineIsMalformed ==
    (/\ ReturnedAfterWrite
     /\ HasBlankLine(stream)
     /\ \A k \in 1..Len(HeaderBlock(stream)) :
            HeaderBlock(stream)[k] \notin StatusLinesWithPair) =>
        (retNil /\ err # "nil")

\* C4: a stream that ends (EOF) before a blank line yields an error and no
\* ScanResult, whatever header lines came before.
C4_EOFBeforeBlankIsMalformed ==
    (ReturnedAfterWrite /\ ~HasBlankLine(stream) /\ ~streamErr /\ ~silent) =>
        (retNil /\ err # "nil")

InFlight == cpc \notin {"start", "returned"}

\* C18: the connection opened by ScanEmail or ping is closed when the call
\* returns, on every exit path: a returned call holds no open connection,
\* one that had dialled holds a closed one, and a connection is open only
\* while its call is in flight.
C18_ConnectionClosedOnReturn ==
    /\ cpc = "returned" => conn # "open"
    /\ (cpc = "returned" /\ err \notin {"connection failed", "dial error"}) =>
           conn = "closed"
    /\ conn = "open" => InFlight

C18_Witness ==
    /\ cop = "scan"
    /\ cpc = "returned"
    /\ err = "invalid spam line format"
    /\ conn = "closed"

\* C19: every ScanEmail and ping call eventually returns, also when the
\* daemon accepts the connection and then sends nothing: the call does not
\* block forever in its write or its read.
C19_EveryCallReturns == <>(cpc = "returned")

----------------------------------------------------------------------------
(* Properties of the rate limiter (checked under SpecLimiter) *)

\* the seconds one token takes to refill at the configured rate: 60/R
RefillSeconds == 60 \div security.RequestsPerMinute

\* the admission checks a..b of the log were all made at time t
AllAt(a, b, t) == \A j \in a..b : allowLog[j][1] = t

\* C6: from a full bucket, of the calls made in immediate succession
\* exactly the first B are admitted; when the next calls come 60/R seconds
\* later, exactly the first of them is admitted.
C6_BurstThenOneRefill ==
    LET B == security.BurstSize
        n == Len(allowLog)
    IN /\ \A i \in 1..n :
              AllAt(1, i, allowLog[1][1]) => (allowLog[i][2] <=> i <= B)
       /\ \A i \in (B + 2)..n :
              (/\ AllAt(1, B + 1, allowLog[1][1])
               /\ AllAt(B + 2, i, allowLog[1][1] + RefillSeconds))
              => (allowLog[i][2] <=> i = B + 2)

C6_Witness ==
    LET B == security.BurstSize
    IN /\ Len(allowLog) >= B + 3
       /\ AllAt(1, B + 1, allowLog[1][1])
       /\ AllAt(B + 2, B + 3, allowLog[1][1] + RefillSeconds)
       /\ allowLog[B][2]
       /\ ~allowLog[B + 1][2]
       /\ allowLog[B + 2][2]
       /\ ~allowLog[B + 3][2]

\* the admission checks a..b of the log that admitted their call
AdmittedIn(a, b) == Cardinality({k \in a..b : allowLog[k][2]})

AllowStep ==
    LET had == LimAdvance(lim, now)
        ok == allowLog'[Len(allowLog')][2]
    IN /\ now' = now
       /\ ok => /\ had >= RefillSeconds
                /\ lim'.tokens = had - RefillSeconds
                /\ lim'.last = now
       /\ ~ok => /\ had < RefillSeconds
                 /\ lim' = lim

\* C36: the bucket always holds between 0 and B tokens (in seconds of
\* refill: between 0 and B * 60/R); an admitted Allow() leaves one token
\* less than the bucket held at that instant; a rejected Allow() found less
\* than one token, leaves tokens and last-refill time as they were, and
\* takes no time.
C36_TokensBoundedAllowTakesOne ==
    /\ [](0 <= lim.tokens /\ lim.tokens <= security.BurstSize * RefillSeconds)
    /\ [][allowLog' # allowLog => AllowStep]_vars

\* a call was rejected after the last admitted one and after some refill:
\* the bucket still holds the admitted call's time and tokens
C36_Witness ==
    \E k \in 1..Len(allowLog) :
        /\ ~allowLog[k][2]
        /\ \E i \in 1..(k - 1) : allowLog[i][2] /\ allowLog[i][1] = lim.last
        /\ lim.last < allowLog[k][1]
        /\ lim.tokens < RefillSeconds

----------------------------------------------------------------------------
(* Properties of the tool calls (checked under Spec) *)

Admitted == {c \in Calls : call[c].admitted}

InTrace(c, stage) == \E i \in 1..Len(call[c].trace) : call[c].trace[i] = stage

\* C7: under every interleaving of the concurrent calls, the calls admitted
\* so far are at most the burst plus the tokens refilled since the start
\* (one every 60/R seconds).
C7_NoTokenConsumedTwice ==
    Cardinality(Admitted) * RefillSeconds <= security.BurstSize * RefillSeconds + now

C7_Witness ==
    \E c \in Calls : \E d \in Calls \ {c} :
        /\ call[c].admitted
        /\ call[d].pc = "done"
        /\ call[d].errKind = "rate limit exceeded"

\* C8: every operation, get_config included, passes through the limiter: a
\* call that completed was admitted by Allow().
C8_EveryOperationRateLimited ==
    \A c \in Calls : call[c].outcome = "Completed" => call[c].admitted

\* the admission check of call c came before its validation, its validation
\* before its daemon call, and a denial ended it with nothing validated
RateCheckFirst(c) ==
    LET tr == call[c].trace
    IN /\ \A i \in 1..Len(tr) :
              tr[i] = "Validated" => \E j \in 1..(i - 1) : tr[j] = "RateChecked"
       /\ \A i \in 1..Len(tr) :
              tr[i] = "Dispatched" => (i > 1 /\ tr[i - 1] = "Validated")
       /\ InTrace(c, "RateChecked") => call[c].admitted
       /\ call[c].errKind = "security validation failed" => InTrace(c, "RateChecked")
       /\ call[c].errKind = "rate limit exceeded" => tr = <<"Received", "Failed">>

\* C9: every tool call goes from Received to RateChecked before anything
\* else: the admission check comes before the validation of the content and
\* the validation before the daemon call, a call denied by the limiter fails
\* with "rate limit exceeded" and validates nothing, and a call that has
\* returned was either denied or has passed RateChecked.
C9_ReceivedRateCheckedValidatedDispatched ==
    \A c \in Calls :
        /\ RateCheckFirst(c)
        /\ call[c].pc = "done" =>
              \/ call[c].errKind = "rate limit exceeded"
              \/ InTrace(c, "RateChecked")

AcceptableContent(m) ==
    /\ m # <<>>
    /\ Len(m) <= security.MaxEmailSize
    /\ ReadMessageOK(m)

\* C11: in scan_email, explain_score and test_rules the content handed to
\* the daemon client is never one that fails validation: whenever a call is
\* inside h.saClient.ScanEmail, its content is not empty, within the maximum
\* size and parseable; a call that failed validation never entered it.
C11_InvalidContentNeverScanned ==
    \A c \in Calls :
        /\ call[c].pc = "dispatched" =>
              /\ call[c].op \in {"scan_email", "explain_score", "test_rules"}
              /\ AcceptableContent(call[c].params.content)
        /\ (call[c].op \in {"scan_email", "explain_score"} /\ InTrace(c, "Dispatched")) =>
              call[c].errKind # "security validation failed"

C11_Witness ==
    \E c \in Calls :
        /\ call[c].op = "test_rules"
        /\ call[c].pc = "dispatched"
        /\ call[c].si = 2
        /\ ~AcceptableContent(call[c].params.samples[1])
        /\ call[c].params.content = call[c].params.samples[2]

\* the errors found locally: by the limiter, by json.Unmarshal, by the validators
LocalErrors ==
    {"rate limit exceeded", "invalid parameters", "security validation failed",
     "rules cannot be empty", "invalid email address format",
     "invalid IP address format"}

\* C12: a call that ends with a validation error or a rate-limit error has
\* made no daemon call between its start and its return.
C12_LocalErrorsMakeNoNetworkCall ==
    \A c \in Calls :
        (call[c].pc = "done" /\ call[c].errKind \in LocalErrors) =>
            /\ call[c].outcome = "Failed"
            /\ ~InTrace(c, "Dispatched")
            /\ call[c].results = <<>>

C12_Witness ==
    \E c \in Calls : \E d \in Calls \ {c} :
        /\ call[c].pc = "done"
        /\ call[c].op = "scan_email"
        /\ call[c].errKind = "security validation failed"
        /\ call[d].pc = "done"
        /\ call[d].op = "test_rules"
        /\ call[d].errKind = "rules cannot be empty"

\* the header names of the envelope-routing denylist, with their colon
RoutingHeaders ==
    {<<"R","e","t","u","r","n","-","P","a","t","h",":">>,
     <<"E","n","v","e","l","o","p","e","-","T","o",":">>,
     <<"X","-","O","r","i","g","i","n","a","l","-","T","o",":">>}

\* some line of the message starts with a denylisted header name
HasRoutingHeader(m) ==
    \E k \in 1..Len(SplitLines(m)) : \E h \in RoutingHeaders :
        HasPrefix(SplitLines(m)[k], h)

\* C14: the content handed to the daemon client never has a line whose
\* header name is on the envelope-routing denylist (Return-Path,
\* Envelope-To, X-Original-To): such lines were removed before.
C14_RoutingHeadersStripped ==
    \A c \in Calls :
        call[c].pc = "dispatched" => ~HasRoutingHeader(call[c].params.content)

\* the reputation results returned so far
ReputationResults ==
    {call[c].results[1] : c \in {d \in Calls : /\ call[d].op = "check_reputation"
                                              /\ call[d].outcome = "Completed"}}

\* the domain contains an entry of the configured block list
OnBlockList(domain) ==
    \E k \in 1..Len(security.BlockedDomains) : Contains(domain, security.BlockedDomains[k])

OnAllowList(sender) ==
    \E k \in 1..Len(security.AllowedSenders) : security.AllowedSenders[k] = sender

RECURSIVE OctetsFrom(_, _, _)
OctetsFrom(s, i, n) ==
    LET e == SkipDigits(s, i)
    IN /\ e > i
       /\ DigitsVal(SubSeq(s, i, e - 1)) <= 255
       /\ IF n = 1 THEN e = Len(s) + 1
          ELSE e <= Len(s) /\ s[e] = "." /\ OctetsFrom(s, e + 1, n - 1)

\* C16: an IP argument that is not a genuine IPv4 address is rejected: no
\* reputation result is returned for a dotted quad with an octet above 255.
C16_OnlyGenuineIPsPass ==
    \A r \in ReputationResults : r.IP # <<>> => OctetsFrom(r.IP, 1, 4)

\* C17: check_reputation requires a sender: no reputation result is
\* returned for an empty sender address.
C17_SenderIsRequired ==
    \A r \in ReputationResults : r.Sender # <<>>

\* C20: a call whose context was cancelled while its daemon round trip was
\* in flight ends Failed with a cancellation error: it reports neither a
\* result nor an error of another kind.
C20_CancelledCallFailsCancelled ==
    \A c \in Calls :
        (call[c].cancelled /\ call[c].pc = "done") =>
            /\ call[c].outcome = "Failed"
            /\ call[c].errKind = "cancelled"

----------------------------------------------------------------------------
(* Properties of the validator (checked under SpecValidator) *)

\* C13: a well-formed message of exactly MaxEmailSize bytes is accepted, one
\* of MaxEmailSize + 1 bytes is rejected as too large, and the empty string
\* is rejected as empty, never as too large, for every MaxEmailSize >= 0.
C13_SizeLimitIsInclusive ==
    (cop = "validate" /\ cpc = "returned") =>
        /\ (content # <<>> /\ ReadMessageOK(content)
              /\ Len(content) = security.MaxEmailSize) => err = "nil"
        /\ Len(content) = security.MaxEmailSize + 1 => err = "email size exceeds limit"
        /\ content = <<>> => err = "email content cannot be empty"

C13_Witness ==
    /\ cop = "validate"
    /\ cpc = "returned"
    /\ Len(content) = security.MaxEmailSize
    /\ Len(content) > Len(ContentShort)
    /\ err = "nil"

----------------------------------------------------------------------------
(* Properties of a tool call: attempts and terminal states *)

Terminals == {"Completed", "Failed"}

\* how many times the call has entered h.saClient.ScanEmail
Dispatches(c) == Count(call[c].trace, "Dispatched")

\* how many terminal states the call has been through
TerminalCount(c) == Count(call[c].trace, "Completed") + Count(call[c].trace, "Failed")

----------------------------------------------------------------------------
(* Properties of TestRules' batch *)

\* the samples of seq that pass validateEmailContent, in order
RECURSIVE ValidOf(_)
ValidOf(seq) ==
    IF seq = <<>> THEN <<>>
    ELSE (IF validateEmailContent(seq[1], security) = "nil" THEN <<seq[1]>> ELSE <<>>)
             \o ValidOf(Tail(seq))

\* the samples a TestRules call has been through, in input order
SamplesDone(c) == SubSeq(call[c].params.samples, 1, call[c].si - 1)

\* C22: between two turns of TestRules' loop the results are one entry for
\* each sample gone through that passes validation, in input order, and a
\* TestRules call that has completed reports as many tested emails as it
\* returns results.
C22_OneResultPerValidSample ==
    \A c \in Calls :
        /\ (call[c].op = "test_rules" /\ call[c].pc = "loop") =>
               [i \in 1..Len(call[c].results) |-> call[c].results[i].Email]
                   = ValidOf(SamplesDone(c))
        /\ (call[c].op = "test_rules" /\ call[c].outcome = "Completed") =>
               call[c].tested = Len(call[c].results)

\* C23: a call in which h.saClient.ScanEmail has returned an error goes on
\* to no further sample and, once returned, has failed.
C23_DaemonErrorFailsTheCall ==
    \A c \in Calls :
        call[c].daemonErr # "nil" => call[c].pc = "done" /\ call[c].outcome = "Failed"

\* the call is a TestRules call past its admission check
InBatch(c) == call[c].op = "test_rules" /\ call[c].admitted

\* C37: a TestRules call passes the admission check once, whatever the
\* number of its samples; no later step of the call touches the bucket; and
\* between two turns of its loop it has dialled the daemon once for each
\* sample gone through that passes validation, one sample at a time.
C37_OneTokenManyScans ==
    /\ [](\A c \in Calls :
            /\ InBatch(c) => Count(call[c].trace, "RateChecked") = 1
            /\ (InBatch(c) /\ call[c].pc = "loop") =>
                   Dispatches(c) = Len(ValidOf(SamplesDone(c))))
    /\ [][\A c \in Calls :
             (InBatch(c) /\ call'[c] # call[c]) => lim' = lim]_vars

\* a TestRules call with two valid samples has dialled the daemon twice on
\* one token
C37_Witness ==
    \E c \in Calls :
        /\ InBatch(c)
        /\ call[c].pc = "loop"
        /\ call[c].si > Len(call[c].params.samples)
        /\ Dispatches(c) = 2
        /\ Count(call[c].trace, "RateChecked") = 1

----------------------------------------------------------------------------
(* Properties of buildScoreExplanation *)

ExplanationLines == SplitLines(explanation)

\* C24: the explanation returned for a result starts with the final-score
\* line, the classification line (SPAM exactly when the result is spam, HAM
\* otherwise) and a blank line.  When rules were hit, a "Rules Triggered:"
\* line follows and then one line per rule, in the order of RulesHit, made
\* of the rule's name, score and description, and nothing else.  When none
\* was hit, the only further line is "No spam rules triggered.".
C24_ExplanationListsRulesInOrder ==
    (cop = "explain" /\ cpc = "returned") =>
        LET lines == ExplanationLines
            n == Len(result.RulesHit)
        IN /\ Len(lines) = (IF n = 0 THEN 5 ELSE n + 5)
           /\ HasPrefix(lines[1], <<"F","i","n","a","l"," ","S","c","o","r","e",":"," ">> \o FormatFloat2(result.Score))
           /\ lines[2] = <<"C","l","a","s","s","i","f","i","c","a","t","i","o","n",":"," ">>
                             \o (IF result.IsSpam THEN <<"S","P","A","M">> ELSE <<"H","A","M">>)
           /\ lines[3] = <<>>
           /\ lines[Len(lines)] = <<>>
           /\ IF n = 0
              THEN lines[4] = <<"N","o"," ","s","p","a","m"," ","r","u","l","e","s"," ","t","r","i","g","g","e","r","e","d",".">>
              ELSE /\ lines[4] = <<"R","u","l","e","s"," ","T","r","i","g","g","e","r","e","d",":">>
                   /\ \A i \in 1..n :
                          lines[4 + i] = <<" ", " ">> \o result.RulesHit[i].Name \o <<":", " ">>
                              \o FormatFloat2(result.RulesHit[i].Score) \o <<" ", "-", " ">>
                              \o result.RulesHit[i].Description
                   /\ \A i \in 1..Len(lines) :
                          lines[i] # <<"N","o"," ","s","p","a","m"," ","r","u","l","e","s"," ","t","r","i","g","g","e","r","e","d",".">>

\* a spam result with two different rules has been explained
C24_Witness ==
    /\ cop = "explain"
    /\ cpc = "returned"
    /\ result.IsSpam
    /\ Len(result.RulesHit) = 2
    /\ result.RulesHit[1].Name # result.RulesHit[2].Name
    /\ Len(ExplanationLines) = 7

----------------------------------------------------------------------------
(* Properties of NewClient (checked under SpecCodec) *)

\* the connection was opened, the PING was written and the first line of
\* the answer contains PONG
PingAnswered ==
    /\ conn = "closed"
    /\ wire = PingFrame
    /\ scanPos = 1
    /\ Contains(stream[1], Pong)

\* C25: NewClient hands out a client exactly when its ping opened the
\* connection and the first line of the answer contains PONG.  After a
\* failed dial or write, a first line without PONG or no answer it
\* returns nil with the error, so there is no client to scan through.
C25_ClientOnlyAfterPong ==
    (cop = "ping" /\ client # "unset") =>
        /\ client \in {"nil", "ready"}
        /\ client = "ready" <=> PingAnswered
        /\ client = "nil" <=> err # "nil"
        /\ client = "nil" <=>
               err \in {"dial error", "write error", "unexpected response",
                        "no response from SpamAssassin"}

\* NewClient has returned a client after a PONG
C25_Witness ==
    /\ cop = "ping"
    /\ client = "ready"
    /\ stream = <<LinePong>>
    /\ cpc = "returned"

----------------------------------------------------------------------------
(* Properties of the validation_enabled setting (checked under SpecValidator) *)

\* C26: the validation_enabled setting switches content validation: with
\* the setting off validateEmailContent rejects nothing, and a content is
\* rejected only with the setting on.
C26_ValidationFollowsSetting ==
    (cop = "validate" /\ cpc = "returned" /\ ~security.ValidationEnabled) => err = "nil"

----------------------------------------------------------------------------
(* Properties of startup (checked under SpecStartup) *)

\* C27: the rate-limiting values are checked before a Handler is built: the
\* construction of the Handler is reached only with requests_per_minute > 0
\* and burst_size > 0, so it neither divides by zero nor builds a limiter
\* that admits nothing.
C27_NonPositiveRatesRejected ==
    (cop = "startup" /\ cpc \in {"built", "panicked"}) =>
        /\ security.RequestsPerMinute > 0
        /\ security.BurstSize > 0
        /\ cpc # "panicked"

----------------------------------------------------------------------------
(* Properties of the report body (checked under SpecCodec) *)

\* ScanEmail has returned a result
ReturnedResult == cop = "scan" /\ cpc = "returned" /\ ~retNil

\* the lines the daemon sent after the blank line that ends the headers
BodyLines == SubSeq(stream, scanPos + 1, Len(stream))

\* the table row that line is: <<>> unless the line, surrounding spaces
\* apart, starts with a score, then has a rule name, then a description
TableRow(line) == RuleMatchAt(TrimSpace(line), 1)

\* the rows among lines[k..] that come after the marker line, in order
RECURSIVE RowsAfterMarker(_, _, _)
RowsAfterMarker(lines, k, afterMarker) ==
    IF k > Len(lines) THEN <<>>
    ELSE IF Contains(lines[k], PtsMarker) THEN RowsAfterMarker(lines, k + 1, TRUE)
    ELSE (IF afterMarker /\ TableRow(lines[k]) # <<>>
          THEN <<[Name |-> TableRow(lines[k])[3],
                  Score |-> ParseFloat(TableRow(lines[k])[2]).val,
                  Description |-> TableRow(lines[k])[4]]>>
          ELSE <<>>) \o RowsAfterMarker(lines, k + 1, afterMarker)

\* C28: the RulesHit of a verbose scan are exactly the rows of the report
\* that come after the "pts rule name" line, in the order of the report:
\* lines before that line, blank lines and lines that do not start with a
\* score followed by a rule name add nothing.
C28_RulesAreTheRowsAfterMarker ==
    (ReturnedResult /\ options.Verbose) =>
        result.RulesHit = RowsAfterMarker(SplitLines(result.Summary), 1, FALSE)

\* C29: the rule names of a returned result are pairwise distinct.
C29_RuleNamesDistinct ==
    ReturnedResult =>
        \A i, j \in 1..Len(result.RulesHit) :
            i # j => result.RulesHit[i].Name # result.RulesHit[j].Name

\* C30: a scan that did not ask for the report returns an empty Summary and
\* no RulesHit, whatever follows the headers in the daemon's answer.
C30_NonVerboseHasNoReport ==
    (ReturnedResult /\ ~options.Verbose) =>
        /\ result.Summary = <<>>
        /\ result.RulesHit = <<>>

\* a CHECK scan has returned a result from an answer that carries a rule
\* table after its headers
C30_Witness ==
    /\ ReturnedResult
    /\ ~options.Verbose
    /\ wire # <<>>
    /\ \E k \in 1..Len(BodyLines) : BodyLines[k] = LineRuleA
    /\ \E k \in 1..Len(BodyLines) : BodyLines[k] = LinePts

----------------------------------------------------------------------------
(* Properties of the score (checked under SpecCodec) *)

\* the score of the last status line among lines, 0 without one
RECURSIVE StatusScore(_)
StatusScore(lines) ==
    IF lines = <<>> THEN 0
    ELSE LET last == lines[Len(lines)]
         IN IF HasPrefix(last, SpamPrefix) /\ Len(scoreRegex(last)) = 3
            THEN ParseFloat(scoreRegex(last)[2]).val
            ELSE StatusScore(SubSeq(lines, 1, Len(lines) - 1))

\* C31: the Score of a returned result is the score of the status line,
\* whatever rules the report lists: it is not recomputed from RulesHit, also
\* when the scores of the rules do not add up to it.
C31_ScoreIsTheStatusLineScore ==
    ReturnedResult => result.Score = StatusScore(HeaderBlock(stream))

\* a verbose scan has returned rules whose scores do not add up to the
\* score of its status line
C31_Witness ==
    /\ ReturnedResult
    /\ options.Verbose
    /\ Len(result.RulesHit) = 2
    /\ result.Score = StatusScore(HeaderBlock(stream))
    /\ result.Score # 0
    /\ SumScores(result.RulesHit) # result.Score

\* the lines of the header block that start with "Spam:"
SpamLines == SelectSeq(HeaderBlock(stream), LAMBDA l : HasPrefix(l, SpamPrefix))

\* its other lines that have a colon
OrdinaryLines ==
    SelectSeq(HeaderBlock(stream),
              LAMBDA l : ~HasPrefix(l, SpamPrefix) /\ Len(SplitN2(l)) = 2)

KeyOf(l) == TrimSpace(SplitN2(l)[1])

ValueOf(l) == TrimSpace(SplitN2(l)[2])

----------------------------------------------------------------------------
(* Properties of CheckReputation (checked under SpecReputation) *)

\* the arguments of the call
Req == call["c1"].params

\* CheckReputation has built its result
Answered == cop = "reputation" /\ cpc = "returned" /\ err = "nil"

Answer == call["c1"].results[1]

\* what follows the '@' of an address
AfterAt(sender) == SubSeq(sender, IndexOf(sender, "@") + 1, Len(sender))

\* the positions of the block list whose entry is a substring of domain
Matching(domain) ==
    {k \in 1..Len(security.BlockedDomains) : Contains(domain, security.BlockedDomains[k])}

\* C32: the domain of the result is the domain argument when one is given
\* and otherwise what follows the '@' of the sender; it is blocked exactly
\* when some block-list entry is a substring of it; and the result is
\* "good" only for a sender equal to an allow-list entry.
C32_DomainSubstringSenderExact ==
    Answered =>
        /\ Answer.Domain = IF Req.domain # <<>> THEN Req.domain
                           ELSE IF Req.sender # <<>> THEN AfterAt(Req.sender)
                           ELSE <<>>
        /\ Answer.Blocked <=> Matching(Answer.Domain) # {}
        /\ Answer.Reputation = "good" <=>
               (~Answer.Blocked /\ \E k \in 1..Len(security.AllowedSenders) :
                                      security.AllowedSenders[k] = Req.sender)

\* a domain that only contains a blocked entry has been found blocked
C32_Witness ==
    /\ Answered
    /\ Req.domain = <<>>
    /\ Req.sender = SenderNear
    /\ security.BlockedDomains = <<DomainBlocked>>
    /\ Answer.Domain = DomainNear
    /\ Answer.Blocked

\* C38: with a domain argument the domain of the sender is not looked at: a
\* sender in a blocked domain, given together with a domain that matches
\* no block-list entry, is not blocked, and is "good" when allow-listed.
C38_DomainArgumentHidesSenderDomain ==
    (Answered /\ Req.domain # <<>> /\ Matching(Req.domain) = {}) =>
        /\ ~Answer.Blocked
        /\ Answer.Reasons = <<>>
        /\ OnAllowList(Req.sender) => Answer.Reputation = "good"
        /\ ~OnAllowList(Req.sender) => Answer.Reputation = "unknown"

\* an allow-listed sender of a blocked domain has been answered "good"
\* because of the domain argument
C38_Witness ==
    /\ Answered
    /\ Req.sender = SenderGood
    /\ Matching(AfterAt(Req.sender)) # {}
    /\ Req.domain = DomainClean
    /\ security.BlockedDomains # <<>>
    /\ Answer.Reputation = "good"
    /\ ~Answer.Blocked

\* the reason recorded for a block-list entry: the entry that
\* "Domain <entry> is blocked" names
ReasonOf(entry) == entry

\* C39: in every result Reasons is non-empty exactly when Blocked is true,
\* Blocked is true exactly when Reputation is "bad", and Reasons has one
\* entry for each block-list entry that matches, in the order of the list.
C39_ReasonsFollowBlockList ==
    Answered =>
        /\ Answer.Reasons # <<>> <=> Answer.Blocked
        /\ Answer.Blocked <=> Answer.Reputation = "bad"
        /\ Len(Answer.Reasons) = Cardinality(Matching(Answer.Domain))
        /\ \A i \in 1..Len(Answer.Reasons) :
               \E k \in Matching(Answer.Domain) :
                   /\ Answer.Reasons[i] = ReasonOf(security.BlockedDomains[k])
                   /\ Cardinality({j \in Matching(Answer.Domain) : j < k}) = i - 1

\* a domain matched by both entries of a two-entry block list
C39_Witness ==
    /\ Answered
    /\ Len(security.BlockedDomains) = 2
    /\ Len(Answer.Reasons) = 2
    /\ Answer.Reasons[1] # Answer.Reasons[2]
    /\ Answer.Blocked

----------------------------------------------------------------------------
(* Properties of get_config (checked under Spec) *)

\* C33: a get_config call never enters a daemon round trip and never
\* fails; it returns the client's own threshold, host, port and timeout with
\* the fixed version "3.4.x" and rule count 1000, the same on every call.
C33_GetConfigIsLocal ==
    \A c \in Calls :
        call[c].op = "get_config" =>
            /\ Dispatches(c) = 0
            /\ call[c].pc \in {"received", "done"}
            /\ call[c].pc = "done" =>
                   /\ call[c].outcome = "Completed"
                   /\ call[c].results =
                          <<[Version |-> "3.4.x", Threshold |-> ClientFields.threshold,
                             BayesEnabled |-> TRUE, RuleCount |-> 1000,
                             Settings |-> [host |-> ClientFields.host,
                                           port |-> ClientFields.port,
                                           timeout |-> ClientFields.timeout]]>>
                   /\ \A d \in Calls :
                          (call[d].op = "get_config" /\ call[d].pc = "done") =>
                              call[d].results = call[c].results

\* two get_config calls have returned
C33_Witness ==
    \A c \in Calls :
        /\ call[c].op = "get_config"
        /\ call[c].pc = "done"
        /\ call[c].results # <<>>

----------------------------------------------------------------------------
(* Properties of the error texts (checked under Spec) *)

\* the same client at another address
ClientElsewhere ==
    [ClientFields EXCEPT !.host = <<"s", "p", "a", "m", "d">>, !.port = 1783]

\* C34: the text of an error returned to the caller carries neither the
\* daemon's address nor any of the submitted content: a call that failed
\* in its daemon round trip has the text that the same failure has with the
\* daemon at another address, and the text of a call that failed
\* validation does not contain the content it was given.
C34_ErrorsCarryNoAddressNoContent ==
    \A c \in Calls :
        /\ call[c].errKind = "scan failed" =>
               call[c].errMsg =
                   <<"scan failed", ": ">> \o ScanErrorText(call[c].daemonErr, ClientElsewhere)
        /\ call[c].errKind = "security validation failed" =>
               ~Contains(call[c].errMsg, ContentBad)

====
